---------------------------- MODULE Spec2Model ----------------------------
(***************************************************************************)
(* A model of youtube-song-sync (package ytss): the local inventory of     *)
(* tracked mp3 files, the reconciliation Playlist.sync builds against the  *)
(* remote playlist, the deferred song actions and their application.       *)
(*                                                                         *)
(* Text is modelled as sequences of one-character strings, so that title   *)
(* parsing, file naming and the index <-> tag conversion are computed the  *)
(* way the code computes them.  Optional[T] is a sequence of length at     *)
(* most one: None is << >>, a value x is << x >>.                          *)
(***************************************************************************)
EXTENDS Integers, Sequences, FiniteSets, TLC

(***************************************************************************)
(* Bounds of the model.                                                    *)
(***************************************************************************)
\* most entries in the remote playlist
MaxRemote == 2
\* most files in the playlist directory when the model starts
MaxLocal == 2
\* most invocations of the program (process runs) in one behaviour
MaxRuns == 2

\* the most actions update_metadata lets a song's queue grow to
MaxQueue == 3

(***************************************************************************)
(* Optional values.                                                        *)
(***************************************************************************)
None == << >>

Some(x) == << x >>

IsNone(o) == o = << >>

Val(o) == o[1]

(***************************************************************************)
(* Text helpers.                                                           *)
(***************************************************************************)
Digits == << "0", "1", "2", "3", "4", "5", "6", "7", "8", "9" >>

UpperCase == << "A", "B", "C", "D", "E", "F", "G", "H", "I", "J", "K", "L", "M",
                "N", "O", "P", "Q", "R", "S", "T", "U", "V", "W", "X", "Y", "Z" >>

LowerCase == << "a", "b", "c", "d", "e", "f", "g", "h", "i", "j", "k", "l", "m",
                "n", "o", "p", "q", "r", "s", "t", "u", "v", "w", "x", "y", "z" >>

\* str(n) for a non-negative int: its decimal digits
RECURSIVE IntToStr(_)
IntToStr(n) ==
    IF n < 10 THEN << Digits[n + 1] >>
    ELSE IntToStr(n \div 10) \o << Digits[(n % 10) + 1] >>

DigitVal(c) == (CHOOSE d \in 1..10 : Digits[d] = c) - 1

\* int(s) for a string of decimal digits
RECURSIVE StrToInt(_)
StrToInt(s) ==
    IF Len(s) = 1 THEN DigitVal(s[1])
    ELSE 10 * StrToInt(SubSeq(s, 1, Len(s) - 1)) + DigitVal(s[Len(s)])

\* Python's s[a:b] for 0 <= a, b <= len(s): empty when b <= a
Slice(s, a, b) == SubSeq(s, a + 1, b)

\* str.casefold on one character (ASCII letters)
CasefoldChar(c) ==
    IF \E k \in 1..26 : UpperCase[k] = c
    THEN LowerCase[CHOOSE k \in 1..26 : UpperCase[k] = c]
    ELSE c

Casefold(s) == [k \in 1..Len(s) |-> CasefoldChar(s[k])]

\* whether w occurs in s at 0-based offset p
OccursAt(s, w, p) == p + Len(w) <= Len(s) /\ Slice(s, p, p + Len(w)) = w

\* Python's "w in s"
Contains(s, w) == \E p \in 0..Len(s) : OccursAt(s, w, p)

\* str.strip(): surrounding whitespace removed
RECURSIVE LStrip(_)
LStrip(s) == IF s # << >> /\ s[1] = " " THEN LStrip(Tail(s)) ELSE s

RECURSIVE RStrip(_)
RStrip(s) ==
    IF s # << >> /\ s[Len(s)] = " " THEN RStrip(SubSeq(s, 1, Len(s) - 1)) ELSE s

Strip(s) == RStrip(LStrip(s))

(***************************************************************************)
(* ytss/constants.py and ytss/utils.py                                     *)
(***************************************************************************)
RESERVED_FILENAME_CHARS == { "<", ">", ":", "\"", "/", "\\", "|", "?", "*" }

MarkerWords == << << "a", "u", "d", "i", "o" >>,
                 << "l", "y", "r", "i", "c" >>,
                 << "v", "i", "d", "e", "o" >>,
                 << "h", "q" >> >>

\* re.finditer(open .*? close): the non-overlapping leftmost matches from
\* 0-based offset pos on, each the shortest one, as spans <<start, end>>
RECURSIVE FindSpans(_, _, _, _)
FindSpans(s, open, close, pos) ==
    LET starts == { p \in pos..(Len(s) - 1) :
                      /\ s[p + 1] = open
                      /\ \E q \in (p + 1)..(Len(s) - 1) : s[q + 1] = close }
    IN  IF starts = {} THEN << >>
        ELSE LET p == CHOOSE x \in starts : \A y \in starts : x <= y
                 q == CHOOSE x \in (p + 1)..(Len(s) - 1) :
                        /\ s[x + 1] = close
                        /\ \A y \in (p + 1)..(Len(s) - 1) : s[y + 1] = close => x <= y
             IN  << << p, q + 1 >> >> \o FindSpans(s, open, close, q + 1)

\* the inner loop of parse_video_title: one append per marker word found
RECURSIVE MarkerAppends(_, _, _)
MarkerAppends(lower, span, w) ==
    IF w > Len(MarkerWords) THEN << >>
    ELSE (IF Contains(lower, MarkerWords[w]) THEN << span >> ELSE << >>)
         \o MarkerAppends(lower, span, w + 1)

RECURSIVE ParenSpans(_, _, _)
ParenSpans(s, matches, k) ==
    IF k > Len(matches) THEN << >>
    ELSE MarkerAppends(Casefold(Slice(s, matches[k][1], matches[k][2])), matches[k], 1)
         \o ParenSpans(s, matches, k + 1)

RemoveSpans(s) ==
    FindSpans(s, "[", "]", 0) \o ParenSpans(s, FindSpans(s, "(", ")", 0), 1)

\* the loop over enumerate(remove_spans), from its k-th element on
RECURSIVE CleanLoop(_, _, _)
CleanLoop(s, spans, k) ==
    IF k > Len(spans) THEN << >>
    ELSE (IF k = 1 THEN Slice(s, 0, spans[1][1])
          ELSE Slice(s, spans[k - 1][2], spans[k][1]))
         \o CleanLoop(s, spans, k + 1)

CleanVideoTitle(s) ==
    LET spans == RemoveSpans(s)
    IN  IF spans # << >>
        THEN CleanLoop(s, spans, 1) \o Slice(s, spans[Len(spans)][2], Len(s))
        ELSE s

Separator == << " ", "-", " " >>

\* variant: the cleaned title is split at its last separator
parse_video_title_LastSeparator(video_title) ==
    LET clean == CleanVideoTitle(video_title)
        hits == { p \in 0..Len(clean) : OccursAt(clean, Separator, p) }
    IN  IF hits = {} THEN << None, Strip(clean) >>
        ELSE LET p == CHOOSE x \in hits : \A y \in hits : x >= y
             IN  << Some(Strip(Slice(clean, 0, p))),
                    Strip(Slice(clean, p + Len(Separator), Len(clean))) >>

\* parse_video_title: <<artist, title>>, artist an Optional
parse_video_title(video_title) ==
    LET clean == CleanVideoTitle(video_title)
        hits == { p \in 0..Len(clean) : OccursAt(clean, Separator, p) }
    IN  IF hits = {} THEN << None, Strip(clean) >>
        ELSE LET p == CHOOSE x \in hits : \A y \in hits : x <= y
             IN  << Some(Strip(Slice(clean, 0, p))),
                    Strip(Slice(clean, p + Len(Separator), Len(clean))) >>

sanitize_filename(filename) == SelectSeq(filename, LAMBDA c : c \notin RESERVED_FILENAME_CHARS)

Mp3Suffix == << ".", "m", "p", "3" >>

\* make_filename(artist, title, index), artist an Optional
make_filename(artist, title, index) ==
    sanitize_filename(
        IF IsNone(artist)
        THEN IntToStr(index) \o << " " >> \o title \o Mp3Suffix
        ELSE IntToStr(index) \o << " " >> \o Val(artist) \o Separator \o title \o Mp3Suffix)


(***************************************************************************)
(* The values the model draws its inputs from.                             *)
(***************************************************************************)
\* video ids
Keys == { "a", "b" }

\* the title YouTube reports for each video
VideoTitleOf(video_id) ==
    IF video_id = "a" THEN << "A", " ", "-", " ", "S" >>
    ELSE << "S", " ", "[", "x", "]" >>

ArtistA == << "A" >>

TitleS == << "S" >>

\* a file of the user's without any ID3 tag; audio is what the file plays:
\* "user" for a recording of the user's, a video id for a download of it
NoTags == [video_id |-> None, index |-> None, artist |-> None, title |-> None,
           audio |-> "user"]

\* a file YTSS left behind: named by make_filename, all four tags written
SyncedFiles ==
    { [name |-> make_filename(Some(ArtistA), TitleS, i),
       tags |-> [video_id |-> Some(v), index |-> Some(IntToStr(i)),
                 artist |-> Some(ArtistA), title |-> Some(TitleS), audio |-> v]] :
        v \in Keys, i \in 0..(MaxRemote - 1) }

\* a file of the user's that the track command tagged with a video id: no
\* index, no artist, and a title or none
UserFileName(v) == IF v = "a" THEN << "x", ".", "m", "p", "3" >> ELSE << "y", ".", "m", "p", "3" >>

TrackedUserFiles ==
    { [name |-> UserFileName(v),
       tags |-> [NoTags EXCEPT !.video_id = Some(v), !.title = t]] :
        v \in Keys, t \in { None, Some(TitleS) } }

\* a file without a video id tag: not tracked
UntrackedFiles == { [name |-> make_filename(Some(ArtistA), TitleS, 0), tags |-> NoTags] }

FileOptions == SyncedFiles \cup TrackedUserFiles \cup UntrackedFiles

\* the directory: file name -> tags of the file
DiskOf(fs) == [n \in { f.name : f \in fs } |-> (CHOOSE f \in fs : f.name = n).tags]

Disks ==
    { DiskOf(fs) : fs \in { x \in SUBSET FileOptions :
                              /\ Cardinality(x) <= MaxLocal
                              /\ \A f, g \in x : f.name = g.name => f = g } }

\* an entry of playlist_info["entries"]: None for an unavailable video, else
\* the video's info dict with its optional "id" and "title" keys
SkippedEntry == [kind |-> "none", id |-> None, title |-> None]

InfoEntry(id, titled) ==
    [kind |-> "info", id |-> id,
     title |-> IF titled /\ ~IsNone(id) THEN Some(VideoTitleOf(Val(id))) ELSE None]

\* the entries of a playlist that yt-dlp resolved: each video's info has its title
EntryOptions == { SkippedEntry, InfoEntry(None, TRUE) } \cup { InfoEntry(Some(v), TRUE) : v \in Keys }

Remotes == UNION { [1..n -> EntryOptions] : n \in 0..MaxRemote }

\* the answers of yt-dlp's extract_info for single videos during one sync
NetAnswers == [Keys -> { "ok", "fail" }]

Perms(S) == { f \in [1..Cardinality(S) -> S] : \A i, j \in 1..Cardinality(S) : f[i] = f[j] => i = j }

(***************************************************************************)
(* ytss/song.py and ytss/song_actions.py: the records                      *)
(***************************************************************************)
Song(video_id, index, artist, title, file) ==
    [video_id |-> video_id, index |-> index, artist |-> artist, title |-> title,
     file |-> file, actions |-> << >>]

UpdateVideoIdMetadata(video_id) == [type |-> "UpdateVideoIdMetadata", video_id |-> video_id]

UpdateIndexMetadata(index) == [type |-> "UpdateIndexMetadata", index |-> index]

UpdateArtistMetadata(artist) == [type |-> "UpdateArtistMetadata", artist |-> artist]

UpdateTitleMetadata(title) == [type |-> "UpdateTitleMetadata", title |-> title]

Download(video_id, output_file) ==
    [type |-> "Download", video_id |-> video_id, output_file |-> output_file]

Delete == [type |-> "Delete"]

Normalize == [type |-> "Normalize"]

RenameFile(new_name) == [type |-> "RenameFile", new_name |-> new_name]

\* Song.from_file: the committed fields read from the file's tags
from_file(file, tags) ==
    Song(tags.video_id,
         IF IsNone(tags.index) THEN None ELSE Some(StrToInt(Val(tags.index))),
         tags.artist, tags.title, Some(file))

(***************************************************************************)
(* The state.                                                              *)
(***************************************************************************)
VARIABLES
    disk,       \* the playlist directory: file name -> ID3 tags
    remote,     \* playlist_info["entries"] as YouTube reports it
    cached_video_titles,    \* utils.cached_video_titles: video id -> title
    songs,      \* Playlist.songs
    video_id_to_remaining_songs,    \* video id -> queue of positions in songs
    pc,         \* where the program is
    pos,        \* Playlist.apply: <<song, action>> to apply next
    opts,       \* the flags the program is run with
    matches,    \* the last sync: one record per remote entry it handled
    run,        \* the run of the program this is
    rendered,   \* the changelist has been printed in this run
    response,   \* what the user typed at the confirmation prompt
    napplied,   \* calls of SongAction.apply in this run
    nfailed,    \* calls of SongAction.apply in this run that raised
    raised,     \* the exception sync or the last SongAction.apply raised, if any
    future      \* what the last call of a get_future_ method returned

vars == << disk, remote, cached_video_titles, songs, video_id_to_remaining_songs,
           pc, pos, opts, matches, run, rendered, response, napplied, nfailed, raised, future >>

\* no exception, ActionError(action, message) of exceptions.py, whose text
\* names the class of the action, and the exceptions of the collaborators
NoException == << >>

ActionError(action) == << "ActionError", action.type >>

Exception(kind) == << kind >>

\* no get_future_ method has been called
NoFuture == [attribute |-> "none", value |-> None]

\* delete_allowed is not --no-delete, rename_allowed is not --no-rename
Options == [delete_allowed : BOOLEAN, rename_allowed : BOOLEAN]

Init ==
    /\ disk \in Disks
    /\ remote \in Remotes
    /\ cached_video_titles = << >>
    /\ songs = << >>
    /\ video_id_to_remaining_songs = << >>
    /\ pc = "start"
    /\ pos = << 1, 1 >>
    /\ opts \in Options
    /\ matches = << >>
    /\ run = 1
    /\ rendered = FALSE
    /\ response = None
    /\ napplied = 0
    /\ nfailed = 0
    /\ raised = NoException
    /\ future = NoFuture

(***************************************************************************)
(* Playlist.__post_init__: the tracked files, in the order iterdir yields  *)
(* them, become songs and join the queue of their video id.                *)
(***************************************************************************)
TrackedNames(d) == { n \in DOMAIN d : ~IsNone(d[n].video_id) }

LoadedSongs(d, order) == [k \in 1..Len(order) |-> from_file(order[k], d[order[k]])]

RemainingOf(ss) ==
    [v \in { Val(ss[k].video_id) : k \in 1..Len(ss) } |->
        SelectSeq([k \in 1..Len(ss) |-> k], LAMBDA k : Val(ss[k].video_id) = v)]

Load ==
    /\ pc = "start"
    /\ \E order \in Perms(TrackedNames(disk)) :
        /\ songs' = LoadedSongs(disk, order)
        /\ video_id_to_remaining_songs' = RemainingOf(LoadedSongs(disk, order))
    /\ pc' = "loaded"
    /\ UNCHANGED << disk, remote, cached_video_titles, pos, opts, matches,
                    run, rendered, response, napplied, nfailed, raised, future >>

(***************************************************************************)
(* utils.get_video_title: [ok, title, cache]                               *)
(***************************************************************************)
\* variant: the cache is written and never read
get_video_title_Uncached(cache, video_id, existing_video_info, net) ==
    IF ~IsNone(existing_video_info.title)
    THEN [ok |-> TRUE, title |-> Val(existing_video_info.title),
          cache |-> (video_id :> Val(existing_video_info.title)) @@ cache]
    ELSE IF net[video_id] = "ok"
    THEN [ok |-> TRUE, title |-> VideoTitleOf(video_id),
          cache |-> (video_id :> VideoTitleOf(video_id)) @@ cache]
    ELSE [ok |-> FALSE, title |-> << >>, cache |-> cache]

get_video_title(cache, video_id, existing_video_info, net) ==
    IF video_id \in DOMAIN cache
    THEN [ok |-> TRUE, title |-> cache[video_id], cache |-> cache]
    ELSE IF ~IsNone(existing_video_info.title)
    THEN [ok |-> TRUE, title |-> Val(existing_video_info.title),
          cache |-> (video_id :> Val(existing_video_info.title)) @@ cache]
    ELSE IF net[video_id] = "ok"
    THEN [ok |-> TRUE, title |-> VideoTitleOf(video_id),
          cache |-> (video_id :> VideoTitleOf(video_id)) @@ cache]
    ELSE [ok |-> FALSE, title |-> << >>, cache |-> cache]

(***************************************************************************)
(* Playlist.sync: the body of the loop over enumerate(entries), on the     *)
(* loop's state st = [songs, remaining, cache, matches, error].            *)
(***************************************************************************)
\* variant: the video id is written before the other tags
NewSongActions_VideoIdFirst(video_id, artist, title, i) ==
    << Download(video_id, make_filename(artist, title, i)),
       Normalize,
       UpdateVideoIdMetadata(video_id),
       UpdateArtistMetadata(artist),
       UpdateTitleMetadata(title),
       UpdateIndexMetadata(i) >>

NewSongActions(video_id, artist, title, i) ==
    << Download(video_id, make_filename(artist, title, i)),
       Normalize,
       UpdateArtistMetadata(artist),
       UpdateTitleMetadata(title),
       UpdateIndexMetadata(i),
       UpdateVideoIdMetadata(video_id) >>

\* variant: the index of the matched song is not compared with i
ExistingSongActions_Unconditional(existing_song, i, rename_allowed) ==
    << UpdateIndexMetadata(i) >>
    \o (IF rename_allowed /\ ~IsNone(existing_song.title)
        THEN << RenameFile(make_filename(existing_song.artist,
                                         Val(existing_song.title), i)) >>
        ELSE << >>)

\* variant: the rename does not look at rename_allowed
ExistingSongActions_RenameUngated(existing_song, i, rename_allowed) ==
    IF IsNone(existing_song.index) \/ Val(existing_song.index) # i
    THEN << UpdateIndexMetadata(i) >>
         \o (IF ~IsNone(existing_song.title)
             THEN << RenameFile(make_filename(existing_song.artist,
                                              Val(existing_song.title), i)) >>
             ELSE << >>)
    ELSE << >>

\* variant: the rename asks for the artist of the matched song, not its title
ExistingSongActions_ArtistGated(existing_song, i, rename_allowed) ==
    IF IsNone(existing_song.index) \/ Val(existing_song.index) # i
    THEN << UpdateIndexMetadata(i) >>
         \o (IF rename_allowed /\ ~IsNone(existing_song.artist)
             THEN << RenameFile(make_filename(existing_song.artist,
                                              Val(existing_song.title), i)) >>
             ELSE << >>)
    ELSE << >>

ExistingSongActions(existing_song, i, rename_allowed) ==
    IF IsNone(existing_song.index) \/ Val(existing_song.index) # i
    THEN << UpdateIndexMetadata(i) >>
         \o (IF rename_allowed /\ ~IsNone(existing_song.title)
             THEN << RenameFile(make_filename(existing_song.artist,
                                              Val(existing_song.title), i)) >>
             ELSE << >>)
    ELSE << >>

SongExists(st, video_id) ==
    /\ video_id \in DOMAIN st.remaining
    /\ Len(st.remaining[video_id]) > 0

\* variant: the matched song stays in the queue of its video id
MatchSong_Peek(st, video_id, s, i, rename_allowed) ==
    [st EXCEPT !.songs[s].actions = @ \o ExistingSongActions(st.songs[s], i, rename_allowed),
               !.matches = Append(@, [index |-> i, song |-> s, new |-> FALSE])]

\* the branch "song exists": the head of the video id's queue is matched
MatchSong(st, video_id, s, i, rename_allowed) ==
    [st EXCEPT !.remaining[video_id] = Tail(@),
               !.songs[s].actions = @ \o ExistingSongActions(st.songs[s], i, rename_allowed),
               !.matches = Append(@, [index |-> i, song |-> s, new |-> FALSE])]

NewSong(video_id, parsed, i) ==
    [Song(None, None, None, None, None) EXCEPT
        !.actions = NewSongActions(video_id, parsed[1], parsed[2], i)]

\* the branch "song does not exist, create it", got the result of the lookup
CreateSong(st, video_id, got, i) ==
    IF ~got.ok THEN [st EXCEPT !.error = "no title"]
    ELSE [st EXCEPT !.cache = got.cache,
                    !.songs = Append(@, NewSong(video_id, parse_video_title(got.title), i)),
                    !.matches = Append(@, [index |-> i, song |-> Len(st.songs) + 1,
                                           new |-> TRUE])]

\* variant: pop() in place of popleft(), the last of the queue is matched
SyncVideo_PopRight(st, i, video_id, video_info, rename_allowed, net) ==
    IF SongExists(st, video_id)
    THEN [MatchSong(st, video_id, st.remaining[video_id][Len(st.remaining[video_id])],
                    i, rename_allowed)
            EXCEPT !.remaining[video_id] =
                SubSeq(st.remaining[video_id], 1, Len(st.remaining[video_id]) - 1)]
    ELSE CreateSong(st, video_id, get_video_title(st.cache, video_id, video_info, net), i)

SyncVideo(st, i, video_id, video_info, rename_allowed, net) ==
    IF SongExists(st, video_id)
    THEN MatchSong(st, video_id, Head(st.remaining[video_id]), i, rename_allowed)
    ELSE CreateSong(st, video_id, get_video_title(st.cache, video_id, video_info, net), i)

\* variant: an entry without "id" is passed over like an unavailable video
SyncEntry_NoIdSkipped(st, i, video_info, rename_allowed, net) ==
    IF video_info.kind = "none" THEN st
    ELSE IF IsNone(video_info.id) THEN st
    ELSE SyncVideo(st, i, Val(video_info.id), video_info, rename_allowed, net)

SyncEntry(st, i, video_info, rename_allowed, net) ==
    IF video_info.kind = "none" THEN st
    ELSE IF IsNone(video_info.id) THEN [st EXCEPT !.error = "no id"]
    ELSE SyncVideo(st, i, Val(video_info.id), video_info, rename_allowed, net)

\* enumerate(entries): the entry at 1-based place k has index k - 1
Enumerate(k) == k - 1

RECURSIVE SyncLoop(_, _, _, _, _)
SyncLoop(st, entries, k, rename_allowed, net) ==
    IF k > Len(entries) \/ st.error # "none" THEN st
    ELSE SyncLoop(SyncEntry(st, Enumerate(k), entries[k], rename_allowed, net),
                  entries, k + 1, rename_allowed, net)

\* the songs left in some queue
Remaining(rem) == UNION { { rem[v][k] : k \in 1..Len(rem[v]) } : v \in DOMAIN rem }


\* variant: every loaded song gets the Delete, matched or not
AppendDeletes_AllLoaded(ss, rem) ==
    [k \in 1..Len(ss) |->
        IF ~IsNone(ss[k].file) THEN [ss[k] EXCEPT !.actions = Append(@, Delete)]
        ELSE ss[k]]

\* the loop over video_id_to_remaining_songs.values() that ends sync
AppendDeletes(ss, rem) ==
    [k \in 1..Len(ss) |->
        IF k \in Remaining(rem) THEN [ss[k] EXCEPT !.actions = Append(@, Delete)]
        ELSE ss[k]]

\* variant: the deletes are appended whatever delete_allowed is
SyncFinish_Ungated(st, delete_allowed) ==
    IF st.error = "none"
    THEN [st EXCEPT !.songs = AppendDeletes(st.songs, st.remaining)]
    ELSE st

\* the end of sync: nothing of it is reached when the loop raised
SyncFinish(st, delete_allowed) ==
    IF st.error = "none" /\ delete_allowed
    THEN [st EXCEPT !.songs = AppendDeletes(st.songs, st.remaining)]
    ELSE st

\* variant: the skipped entries are dropped before the entries are enumerated
SyncResult_Compacted(delete_allowed, rename_allowed, net) ==
    SyncFinish(SyncLoop([songs |-> songs, remaining |-> video_id_to_remaining_songs,
                         cache |-> cached_video_titles, matches |-> << >>,
                         error |-> "none"],
                        SelectSeq(remote, LAMBDA e : e.kind # "none"), 1,
                        rename_allowed, net),
               delete_allowed)

SyncResult(delete_allowed, rename_allowed, net) ==
    SyncFinish(SyncLoop([songs |-> songs, remaining |-> video_id_to_remaining_songs,
                         cache |-> cached_video_titles, matches |-> << >>,
                         error |-> "none"],
                        remote, 1, rename_allowed, net),
               delete_allowed)

\* the exception that ends sync: YoutubeVideoMetadataError with what is missing
MetadataError(missing) == << "YoutubeVideoMetadataError", missing >>

SyncException(error) == IF error = "none" THEN NoException ELSE MetadataError(error)

\* what a call of sync leaves in the Playlist object
SyncCommit(st) ==
    /\ raised' = SyncException(st.error)
    /\ songs' = st.songs
    /\ video_id_to_remaining_songs' = st.remaining
    /\ cached_video_titles' = st.cache
    /\ matches' = st.matches
    /\ pc' = IF st.error = "none" THEN "synced" ELSE "sync_error"

\* Playlist.sync(playlist_id, delete_allowed, rename_allowed); playlist is
\* the outcome of get_info for the playlist itself
Sync ==
    /\ pc = "loaded"
    /\ \E playlist \in { "ok", "fail" }, net \in NetAnswers :
        IF playlist = "fail"
        THEN /\ pc' = "sync_error"
             /\ raised' = MetadataError("no info")
             /\ UNCHANGED << songs, video_id_to_remaining_songs, cached_video_titles,
                             matches >>
        ELSE SyncCommit(SyncResult(opts.delete_allowed, opts.rename_allowed, net))
    /\ UNCHANGED << disk, remote, pos, opts, run, rendered, response, napplied, nfailed, future >>

(***************************************************************************)
(* SongAction.apply of each kind: [song, disk, raised].  ok is whether the *)
(* collaborator the action calls (tag store, yt-dlp, file system, pydub)   *)
(* does its work; when it does not, its exception propagates.              *)
(***************************************************************************)
Without(d, names) == [n \in (DOMAIN d) \ names |-> d[n]]

\* variant: a song without a file is passed over without an error
set_mp3_metadata_Unchecked(action, d, file, metadata_key, value, ok) ==
    IF IsNone(file) THEN [disk |-> d, raised |-> NoException]
    ELSE IF Val(file) \notin DOMAIN d \/ ~ok THEN [disk |-> d, raised |-> Exception("IOError")]
    ELSE [disk |-> [d EXCEPT ![Val(file)][metadata_key] = value], raised |-> NoException]

\* SongAction.set_mp3_metadata and set_custom_mp3_metadata
set_mp3_metadata(action, d, file, metadata_key, value, ok) ==
    IF IsNone(file) THEN [disk |-> d, raised |-> ActionError(action)]
    ELSE IF Val(file) \notin DOMAIN d \/ ~ok THEN [disk |-> d, raised |-> Exception("IOError")]
    ELSE [disk |-> [d EXCEPT ![Val(file)][metadata_key] = value], raised |-> NoException]

UpdateVideoIdMetadataApply(action, song, d, ok) ==
    LET w == set_mp3_metadata(action, d, song.file, "video_id", Some(action.video_id), ok)
    IN  [song |-> [song EXCEPT !.video_id = Some(action.video_id)],
         disk |-> w.disk, raised |-> w.raised]

\* variant: the index is written to the tag only, not to the song
UpdateIndexMetadataApply_TagOnly(action, song, d, ok) ==
    LET w == set_mp3_metadata(action, d, song.file, "index", Some(IntToStr(action.index)), ok)
    IN  [song |-> song, disk |-> w.disk, raised |-> w.raised]

UpdateIndexMetadataApply(action, song, d, ok) ==
    LET w == set_mp3_metadata(action, d, song.file, "index", Some(IntToStr(action.index)), ok)
    IN  [song |-> [song EXCEPT !.index = Some(action.index)],
         disk |-> w.disk, raised |-> w.raised]

UpdateArtistMetadataApply(action, song, d, ok) ==
    LET w == set_mp3_metadata(action, d, song.file, "artist", action.artist, ok)
    IN  [song |-> [song EXCEPT !.artist = action.artist],
         disk |-> w.disk, raised |-> w.raised]

\* variant: the file is looked at before the title is assigned
UpdateTitleMetadataApply_CheckFirst(action, song, d, ok) ==
    LET w == set_mp3_metadata(action, d, song.file, "title", Some(action.title), ok)
    IN  [song |-> IF IsNone(song.file) THEN song
                  ELSE [song EXCEPT !.title = Some(action.title)],
         disk |-> w.disk, raised |-> w.raised]

UpdateTitleMetadataApply(action, song, d, ok) ==
    LET w == set_mp3_metadata(action, d, song.file, "title", Some(action.title), ok)
    IN  [song |-> [song EXCEPT !.title = Some(action.title)],
         disk |-> w.disk, raised |-> w.raised]

\* variant: the download does not record the output file on the song
DownloadApply_NoHandle(action, song, d, ok) ==
    [song |-> [song EXCEPT !.video_id = Some(action.video_id)],
     disk |-> IF ok THEN (action.output_file :> [NoTags EXCEPT !.audio = action.video_id]) @@ d
              ELSE d,
     raised |-> IF ok THEN NoException ELSE Exception("DownloadError")]

\* yt-dlp leaves a new mp3 without tags at the output file
DownloadApply(action, song, d, ok) ==
    [song |-> [song EXCEPT !.video_id = Some(action.video_id),
                           !.file = Some(action.output_file)],
     disk |-> IF ok THEN (action.output_file :> [NoTags EXCEPT !.audio = action.video_id]) @@ d
              ELSE d,
     raised |-> IF ok THEN NoException ELSE Exception("DownloadError")]

\* variant: a missing file is reported like a missing handle
DeleteApply_OneErrorKind(action, song, d, ok) ==
    IF IsNone(song.file) THEN [song |-> song, disk |-> d, raised |-> ActionError(action)]
    ELSE IF Val(song.file) \notin DOMAIN d
    THEN [song |-> song, disk |-> d, raised |-> ActionError(action)]
    ELSE IF ~ok THEN [song |-> song, disk |-> d, raised |-> Exception("OSError")]
    ELSE [song |-> song, disk |-> Without(d, { Val(song.file) }), raised |-> NoException]

DeleteApply(action, song, d, ok) ==
    IF IsNone(song.file) THEN [song |-> song, disk |-> d, raised |-> ActionError(action)]
    ELSE IF Val(song.file) \notin DOMAIN d
    THEN [song |-> song, disk |-> d, raised |-> Exception("FileNotFoundError")]
    ELSE IF ~ok THEN [song |-> song, disk |-> d, raised |-> Exception("OSError")]
    ELSE [song |-> song, disk |-> Without(d, { Val(song.file) }), raised |-> NoException]

TempSuffix == << ".", "t", "e", "m", "p" >>

\* variant: the export is left under <name>.temp, the last rename is missing
NormalizeApply_TempLeft(action, song, d, ok) ==
    IF IsNone(song.file) THEN [song |-> song, disk |-> d, raised |-> ActionError(action)]
    ELSE IF Val(song.file) \notin DOMAIN d \/ ~ok
    THEN [song |-> song, disk |-> d, raised |-> Exception("IOError")]
    ELSE [song |-> song,
          disk |-> ((Val(song.file) \o TempSuffix)
                        :> [NoTags EXCEPT !.audio = d[Val(song.file)].audio])
                   @@ Without(d, { Val(song.file) }),
          raised |-> NoException]

\* pydub exports the normalized audio, without tags, to <name>.temp, the
\* file is unlinked and the export renamed to it
NormalizeApply(action, song, d, ok) ==
    IF IsNone(song.file) THEN [song |-> song, disk |-> d, raised |-> ActionError(action)]
    ELSE IF Val(song.file) \notin DOMAIN d \/ ~ok
    THEN [song |-> song, disk |-> d, raised |-> Exception("IOError")]
    ELSE [song |-> song,
          disk |-> (Val(song.file) :> [NoTags EXCEPT !.audio = d[Val(song.file)].audio])
                   @@ Without(d, { Val(song.file) \o TempSuffix }),
          raised |-> NoException]

\* variant: the file is renamed and the song keeps its old handle
RenameFileApply_HandleKept(action, song, d, ok) ==
    IF IsNone(song.file) THEN [song |-> song, disk |-> d, raised |-> ActionError(action)]
    ELSE IF Val(song.file) \notin DOMAIN d
    THEN [song |-> song, disk |-> d, raised |-> Exception("FileNotFoundError")]
    ELSE IF ~ok THEN [song |-> song, disk |-> d, raised |-> Exception("OSError")]
    ELSE [song |-> song,
          disk |-> (action.new_name :> d[Val(song.file)]) @@ Without(d, { Val(song.file) }),
          raised |-> NoException]

\* Path.rename: where it succeeds onto an existing file (POSIX) it replaces
\* that file; where it raises instead (Windows) is the case ~ok
RenameFileApply(action, song, d, ok) ==
    IF IsNone(song.file) THEN [song |-> song, disk |-> d, raised |-> ActionError(action)]
    ELSE IF Val(song.file) \notin DOMAIN d
    THEN [song |-> song, disk |-> d, raised |-> Exception("FileNotFoundError")]
    ELSE IF ~ok THEN [song |-> song, disk |-> d, raised |-> Exception("OSError")]
    ELSE [song |-> [song EXCEPT !.file = Some(action.new_name)],
          disk |-> (action.new_name :> d[Val(song.file)]) @@ Without(d, { Val(song.file) }),
          raised |-> NoException]

ActionApply(action, song, d, ok) ==
    CASE action.type = "UpdateVideoIdMetadata" -> UpdateVideoIdMetadataApply(action, song, d, ok)
      [] action.type = "UpdateIndexMetadata" -> UpdateIndexMetadataApply(action, song, d, ok)
      [] action.type = "UpdateArtistMetadata" -> UpdateArtistMetadataApply(action, song, d, ok)
      [] action.type = "UpdateTitleMetadata" -> UpdateTitleMetadataApply(action, song, d, ok)
      [] action.type = "Download" -> DownloadApply(action, song, d, ok)
      [] action.type = "Delete" -> DeleteApply(action, song, d, ok)
      [] action.type = "Normalize" -> NormalizeApply(action, song, d, ok)
      [] action.type = "RenameFile" -> RenameFileApply(action, song, d, ok)

(***************************************************************************)
(* Song.get_future_video_id, get_future_index, get_future_artist and       *)
(* get_future_title: the loop over self.actions, from the committed value. *)
(***************************************************************************)
\* what an Update action assigns to the song's field: artist is Optional
\* in the action as it is in the song
Payload(action, field) == IF field = "artist" THEN action.artist ELSE Some(action[field])

\* variant: the loop ends at the first action of the type
RECURSIVE FutureScan_FirstWins(_, _, _, _, _)
FutureScan_FirstWins(value, actions, k, type, field) ==
    IF k > Len(actions) THEN value
    ELSE IF actions[k].type = type THEN Payload(actions[k], field)
    ELSE FutureScan_FirstWins(value, actions, k + 1, type, field)

RECURSIVE FutureScan(_, _, _, _, _)
FutureScan(value, actions, k, type, field) ==
    IF k > Len(actions) THEN value
    ELSE FutureScan(IF actions[k].type = type THEN Payload(actions[k], field) ELSE value,
                    actions, k + 1, type, field)

get_future_video_id(song) ==
    FutureScan(song.video_id, song.actions, 1, "UpdateVideoIdMetadata", "video_id")

get_future_index(song) ==
    FutureScan(song.index, song.actions, 1, "UpdateIndexMetadata", "index")

get_future_artist(song) ==
    FutureScan(song.artist, song.actions, 1, "UpdateArtistMetadata", "artist")

get_future_title(song) ==
    FutureScan(song.title, song.actions, 1, "UpdateTitleMetadata", "title")

(***************************************************************************)
(* Actionable.confirm_and_apply on the playlist: render_changelist, then,  *)
(* if there is any action, get_confirmation and Playlist.apply.            *)
(***************************************************************************)
has_any_song_action(ss) == \E k \in 1..Len(ss) : ss[k].actions # << >>

\* variant: the songs are gone through from the end of the list
FirstPos_LastFirst(ss, s) ==
    LET rest == { k \in s..Len(ss) : ss[k].actions # << >> }
    IN  IF rest = {} THEN << Len(ss) + 1, 1 >>
        ELSE << CHOOSE k \in rest : \A j \in rest : k >= j, 1 >>

\* the first action at or after song s, the place after the last song if none
FirstPos(ss, s) ==
    LET rest == { k \in s..Len(ss) : ss[k].actions # << >> }
    IN  IF rest = {} THEN << Len(ss) + 1, 1 >>
        ELSE << CHOOSE k \in rest : \A j \in rest : k <= j, 1 >>

\* the action after action a of song s, in the order of the two loops
NextPos(ss, s, a) == IF a < Len(ss[s].actions) THEN << s, a + 1 >> ELSE FirstPos(ss, s + 1)

\* what the tables of the changelist show of a song: its future values
Preview(song) ==
    [video_id |-> get_future_video_id(song), index |-> get_future_index(song),
     artist |-> get_future_artist(song), title |-> get_future_title(song)]

\* variant: a confirmation is asked for after every changelist
RenderChangelist_AlwaysConfirm ==
    /\ pc = "synced"
    /\ rendered' = TRUE
    /\ future' = IF has_any_song_action(songs)
                 THEN [attribute |-> "changelist",
                       value |-> [k \in 1..Len(songs) |-> Preview(songs[k])]]
                 ELSE future
    /\ pc' = "confirming"
    /\ UNCHANGED << disk, remote, cached_video_titles, songs, video_id_to_remaining_songs,
                    pos, opts, matches, run, response, napplied, nfailed, raised >>

\* render_changelist: "No changes to be applied!" and nothing else when no
\* song has an action, else the tables, which read the future values
RenderChangelist ==
    /\ pc = "synced"
    /\ rendered' = TRUE
    /\ future' = IF has_any_song_action(songs)
                 THEN [attribute |-> "changelist",
                       value |-> [k \in 1..Len(songs) |-> Preview(songs[k])]]
                 ELSE future
    /\ pc' = IF has_any_song_action(songs) THEN "confirming" ELSE "done"
    /\ UNCHANGED << disk, remote, cached_video_titles, songs, video_id_to_remaining_songs,
                    pos, opts, matches, run, response, napplied, nfailed, raised >>

Responses == { "yes", "y", "YES", "no" }

\* variant: a response that starts like "yes" is taken for it
Accepted_Lenient(resp) == resp \in { "yes", "y" }

\* get_confirmation: whether the response lets the program continue
Accepted(resp) == resp = "yes"

GetConfirmation ==
    /\ pc = "confirming"
    /\ \E resp \in Responses :
        /\ response' = Some(resp)
        /\ pc' = IF Accepted(resp) THEN "applying" ELSE "aborted"
    /\ pos' = FirstPos(songs, 1)
    /\ UNCHANGED << disk, remote, cached_video_titles, songs, video_id_to_remaining_songs,
                    opts, matches, run, rendered, napplied, nfailed, raised, future >>

\* variant: the exception of an action is swallowed and the loops go on
ApplyStep_Continue ==
    /\ pc = "applying"
    /\ \E ok \in BOOLEAN :
        LET s == pos[1]
            r == ActionApply(songs[s].actions[pos[2]], songs[s], disk, ok)
        IN  /\ songs' = [songs EXCEPT ![s] = r.song]
            /\ disk' = r.disk
            /\ napplied' = napplied + 1
            /\ raised' = r.raised
            /\ nfailed' = IF r.raised # NoException THEN nfailed + 1 ELSE nfailed
            /\ pos' = NextPos(songs, s, pos[2])
            /\ pc' = IF NextPos(songs, s, pos[2])[1] > Len(songs)
                     THEN "done" ELSE "applying"
    /\ UNCHANGED << remote, cached_video_titles, video_id_to_remaining_songs, opts,
                    matches, run, rendered, response, future >>

\* one iteration of the loops of Playlist.apply and Song.apply
ApplyStep ==
    /\ pc = "applying"
    /\ \E ok \in BOOLEAN :
        LET s == pos[1]
            r == ActionApply(songs[s].actions[pos[2]], songs[s], disk, ok)
        IN  /\ songs' = [songs EXCEPT ![s] = r.song]
            /\ disk' = r.disk
            /\ napplied' = napplied + 1
            /\ raised' = r.raised
            /\ IF r.raised # NoException
               THEN /\ pc' = "apply_error"
                    /\ nfailed' = nfailed + 1
                    /\ pos' = pos
               ELSE /\ pos' = NextPos(songs, s, pos[2])
                    /\ pc' = IF NextPos(songs, s, pos[2])[1] > Len(songs)
                             THEN "done" ELSE "applying"
                    /\ nfailed' = nfailed
    /\ UNCHANGED << remote, cached_video_titles, video_id_to_remaining_songs, opts,
                    matches, run, rendered, response, future >>

Next ==
    \/ Load
    \/ Sync
    \/ RenderChangelist
    \/ GetConfirmation
    \/ ApplyStep

\* one run of the program
Spec == Init /\ [][Next]_vars

\* the program has ended and is run again, with the same options, on the
\* directory it left and the same remote playlist
NewRun ==
    /\ pc = "done"
    /\ run < MaxRuns
    /\ run' = run + 1
    /\ pc' = "start"
    /\ cached_video_titles' = << >>
    /\ songs' = << >>
    /\ video_id_to_remaining_songs' = << >>
    /\ pos' = << 1, 1 >>
    /\ matches' = << >>
    /\ rendered' = FALSE
    /\ response' = None
    /\ napplied' = 0
    /\ nfailed' = 0
    /\ raised' = NoException
    /\ future' = NoFuture
    /\ UNCHANGED << disk, remote, opts >>

\* the default options: deleting and renaming allowed
InitRerun == Init /\ opts.delete_allowed /\ opts.rename_allowed

NextRerun ==
    \/ Next
    \/ NewRun

\* runs of the program with its default options, one after the other
SpecRerun == InitRerun /\ [][NextRerun]_vars

(***************************************************************************)
(* Vocabulary of the properties.                                           *)
(***************************************************************************)
\* the songs sync created, and the songs that were loaded from files
NewSongs == { matches[j].song : j \in { x \in 1..Len(matches) : matches[x].new } }

LocalSongs == (1..Len(songs)) \ NewSongs

\* the array indices of the remote entries that are not skipped and carry an id
ValidIndices ==
    { i \in 0..(Len(remote) - 1) : remote[i + 1].kind = "info" /\ ~IsNone(remote[i + 1].id) }

KeyAt(i) == Val(remote[i + 1].id)

HasAction(song, type) == \E a \in 1..Len(song.actions) : song.actions[a].type = type

CountActions(song, type) ==
    Cardinality({ a \in 1..Len(song.actions) : song.actions[a].type = type })

\* the songs whose resource the apply keeps: those without a Delete
KeptSongs == { k \in 1..Len(songs) : ~HasAction(songs[k], "Delete") }

\* the tracked files of the directory mirror the remote list, and the kept
\* songs are those files
Mirrors ==
    /\ \A i \in ValidIndices :
        /\ Cardinality({ n \in TrackedNames(disk) :
                            /\ disk[n].video_id = Some(KeyAt(i))
                            /\ disk[n].index = Some(IntToStr(i)) }) = 1
        /\ Cardinality({ k \in KeptSongs :
                            /\ songs[k].video_id = Some(KeyAt(i))
                            /\ songs[k].index = Some(i) }) = 1
    /\ Cardinality(TrackedNames(disk)) = Cardinality(ValidIndices)
    /\ \A k \in KeptSongs :
        /\ ~IsNone(songs[k].file)
        /\ Val(songs[k].file) \in TrackedNames(disk)
        /\ \A j \in KeptSongs : songs[j].file = songs[k].file => j = k

(***************************************************************************)
(* C1: after a sync with deleting and renaming allowed and an apply in     *)
(* which every action succeeds, the tracked inventory mirrors the remote   *)
(* list: one tracked item per non-skipped remote entry, with that entry's  *)
(* key and index, backed by its own existing file, and no other tracked    *)
(* file.  The code does not keep this: a rename onto the file of another   *)
(* song replaces that file.                                                *)
(***************************************************************************)
C1_MirrorAfterApply ==
    (pc = "done" /\ run = 1 /\ opts.delete_allowed /\ opts.rename_allowed) => Mirrors

\* the loaded inventory already matches the remote list: one loaded song per
\* non-skipped remote entry, with that entry's key and index, and no other
InSyncLoaded ==
    /\ \A i \in 0..(Len(remote) - 1) : remote[i + 1].kind = "info" => i \in ValidIndices
    /\ \A i \in ValidIndices :
        Cardinality({ k \in LocalSongs :
                        /\ songs[k].video_id = Some(KeyAt(i))
                        /\ songs[k].index = Some(i) }) = 1
    /\ Cardinality(LocalSongs) = Cardinality(ValidIndices)

NoChanges == NewSongs = { } /\ \A k \in 1..Len(songs) : songs[k].actions = << >>

(***************************************************************************)
(* C2: when the loaded inventory already matches the remote list, one sync *)
(* creates no song and appends no action, whatever the order in which the  *)
(* files were loaded and whether or not keys repeat.  The code does not    *)
(* keep this: two songs of one key loaded in the reverse of their indices  *)
(* are matched crosswise and both get an UpdateIndexMetadata.              *)
(***************************************************************************)
C2_IdempotentSync ==
    (pc \in { "synced", "sync_error" } /\ run = 1 /\ InSyncLoaded) => NoChanges

(***************************************************************************)
(* C3: sync, an apply in which every action succeeds, a reload of the      *)
(* directory and a second sync against the same remote list leave no       *)
(* pending action and create no song.  The code does not keep this: the    *)
(* first run can lose files to a rename collision (C1), and a reload in    *)
(* another order matches songs of one key crosswise (C2).                  *)
(***************************************************************************)
C3_RerunIdempotent ==
    (pc \in { "synced", "sync_error" } /\ run = 2) => NoChanges

\* sync has returned or raised and nothing is applied yet: the songs still
\* hold their committed fields
AfterSync == pc \in { "synced", "sync_error" }

\* the place of a loaded song among the loaded songs of its key, and the
\* place of a remote index among the remote occurrences of its key
RankLocal(k) ==
    Cardinality({ j \in LocalSongs : j <= k /\ songs[j].video_id = songs[k].video_id })

RankRemote(i) == Cardinality({ j \in ValidIndices : j <= i /\ KeyAt(j) = KeyAt(i) })

AtOwnIndex(k, i) == songs[k].video_id = Some(KeyAt(i)) /\ songs[k].index = Some(i)

(***************************************************************************)
(* C4, as stated: a loaded song whose key is in the remote list at the     *)
(* index equal to the song's index gets no action from sync.  It fails     *)
(* when the key repeats in the remote list: the queue of the key hands the *)
(* song to the first occurrence of the key.                                *)
(***************************************************************************)
C4_IdentityStable ==
    AfterSync =>
        \A k \in LocalSongs :
            (\E i \in ValidIndices : AtOwnIndex(k, i)) => songs[k].actions = << >>

(***************************************************************************)
(* C4, amended: a loaded song that is the n-th loaded song of its key gets *)
(* no action from sync when the n-th remote occurrence of the key is at    *)
(* the index equal to the song's index.                                    *)
(***************************************************************************)
C4_IdentityStableInTurn ==
    AfterSync =>
        \A k \in LocalSongs : \A i \in ValidIndices :
            (AtOwnIndex(k, i) /\ RankLocal(k) = RankRemote(i)) => songs[k].actions = << >>

\* the second song of a key stays at the second occurrence of the key
C4_Witness ==
    /\ pc = "synced"
    /\ \E k \in LocalSongs : \E i \in ValidIndices :
        /\ AtOwnIndex(k, i)
        /\ RankLocal(k) = 2
        /\ RankRemote(i) = 2
        /\ songs[k].actions = << >>

\* the matches of loaded songs whose index differs from the index matched
Moved ==
    { j \in 1..Len(matches) :
        ~matches[j].new /\ songs[matches[j].song].index # Some(matches[j].index) }

RenameWanted(song) == opts.rename_allowed /\ ~IsNone(song.title)

(***************************************************************************)
(* C5: a loaded song matched at an index other than its own gets exactly   *)
(* one UpdateIndexMetadata of that index, followed by exactly one          *)
(* RenameFile if and only if renaming is allowed and the song's title is   *)
(* known, and neither a Download nor a Delete.                             *)
(***************************************************************************)
C5_Reordering ==
    AfterSync =>
        \A j \in Moved :
            LET song == songs[matches[j].song]
                i == matches[j].index
            IN  /\ CountActions(song, "UpdateIndexMetadata") = 1
                /\ song.actions[1] = UpdateIndexMetadata(i)
                /\ CountActions(song, "RenameFile") = (IF RenameWanted(song) THEN 1 ELSE 0)
                /\ RenameWanted(song) =>
                    song.actions[2] = RenameFile(make_filename(song.artist, Val(song.title), i))
                /\ ~HasAction(song, "Download")
                /\ ~HasAction(song, "Delete")
                /\ Len(song.actions) = (IF RenameWanted(song) THEN 2 ELSE 1)

\* a moved song with a known title while renaming is not allowed, and a
\* moved song that is renamed
C5_Witness ==
    /\ pc = "synced"
    /\ \E j \in Moved : ~IsNone(songs[matches[j].song].title)
    /\ \/ ~opts.rename_allowed
       \/ \E j \in Moved : IsNone(songs[matches[j].song].title)

\* the loaded songs whose key no remote entry carries
Absent ==
    { k \in LocalSongs : \A i \in ValidIndices : songs[k].video_id # Some(KeyAt(i)) }

(***************************************************************************)
(* C6: after a sync that returned, a loaded song whose key is absent from  *)
(* the remote list holds exactly a Delete if deleting is allowed and no    *)
(* action at all if it is not.                                             *)
(***************************************************************************)
C6_DeletionGating ==
    pc = "synced" =>
        \A k \in Absent :
            songs[k].actions = (IF opts.delete_allowed THEN << Delete >> ELSE << >>)

C6_Witness ==
    /\ pc = "synced"
    /\ ~opts.delete_allowed
    /\ Absent # { }
    /\ ValidIndices # { }

(***************************************************************************)
(* C7: the n-th remote occurrence of a key is matched to the n-th loaded   *)
(* song with that key; with two songs of one key and two entries of that   *)
(* key the song loaded first goes to the lower index.                      *)
(***************************************************************************)
C7_DuplicateKeyFifo ==
    AfterSync =>
        \A j \in 1..Len(matches) :
            ~matches[j].new =>
                /\ songs[matches[j].song].video_id = Some(KeyAt(matches[j].index))
                /\ RankLocal(matches[j].song) = RankRemote(matches[j].index)

\* two loaded songs of one key, both matched
C7_Witness ==
    /\ pc = "synced"
    /\ \E j, l \in 1..Len(matches) :
        /\ ~matches[j].new /\ ~matches[l].new
        /\ matches[j].song < matches[l].song
        /\ matches[j].index < matches[l].index
        /\ songs[matches[j].song].video_id = songs[matches[l].song].video_id

\* how many actions of song k have been applied without raising
AppliedCount(k) ==
    IF pc = "done" THEN Len(songs[k].actions)
    ELSE IF pc \in { "applying", "apply_error" }
    THEN (IF k < pos[1] THEN Len(songs[k].actions)
          ELSE IF k = pos[1] THEN pos[2] - 1 ELSE 0)
    ELSE 0

ActionTypes(song) == [a \in 1..Len(song.actions) |-> song.actions[a].type]

NewSongQueue ==
    << "Download", "Normalize", "UpdateArtistMetadata", "UpdateTitleMetadata",
       "UpdateIndexMetadata", "UpdateVideoIdMetadata" >>

\* the Download of song k has been called and has raised
DownloadRaised(k) == pc = "apply_error" /\ pos = << k, 1 >>

(***************************************************************************)
(* C8: a remote entry for which no loaded song is left gets a new song     *)
(* whose actions are exactly Download, Normalize, UpdateArtistMetadata,    *)
(* UpdateTitleMetadata, UpdateIndexMetadata of the entry's index and       *)
(* UpdateVideoIdMetadata of the entry's key, in this order; as long as     *)
(* only a proper prefix of them has been applied the file of the song      *)
(* carries no video id tag, so the directory does not track it.            *)
(***************************************************************************)
C8_NewSongOrdering ==
    /\ pc = "synced" => \A i \in ValidIndices : \E j \in 1..Len(matches) : matches[j].index = i
    /\ \A j \in 1..Len(matches) :
        matches[j].new =>
            LET k == matches[j].song
                i == matches[j].index
            IN  /\ ActionTypes(songs[k]) = NewSongQueue
                /\ songs[k].actions[1].video_id = KeyAt(i)
                /\ songs[k].actions[5].index = i
                /\ songs[k].actions[6].video_id = KeyAt(i)
                /\ (AppliedCount(k) = 0 /\ ~DownloadRaised(k)) => IsNone(songs[k].file)
                /\ (AppliedCount(k) >= 1 /\ AppliedCount(k) < Len(NewSongQueue)) =>
                    /\ ~IsNone(songs[k].file)
                    /\ Val(songs[k].file) \in DOMAIN disk
                    /\ IsNone(disk[Val(songs[k].file)].video_id)
                /\ AppliedCount(k) = Len(NewSongQueue) =>
                    disk[Val(songs[k].file)].video_id = Some(KeyAt(i))

\* a new song with all its actions but the last applied
C8_Witness ==
    /\ pc = "applying"
    /\ \E k \in NewSongs :
        /\ AppliedCount(k) = Len(NewSongQueue) - 1
        /\ IsNone(disk[Val(songs[k].file)].video_id)
        /\ disk[Val(songs[k].file)].index = Some(IntToStr(songs[k].index[1]))

\* how many loaded songs sync has taken from the queues
Popped ==
    Cardinality({ k \in 1..Len(songs) : ~IsNone(songs[k].file) })
    - Cardinality(Remaining(video_id_to_remaining_songs))

Created == Cardinality({ k \in 1..Len(songs) : IsNone(songs[k].file) })

(***************************************************************************)
(* C9: a skipped remote entry takes no song from a queue, appends no       *)
(* action and creates no song: the songs taken and created are as many as  *)
(* the entries that are not skipped; every other entry is given its own    *)
(* array index, and the index of a skipped entry is given to no song.      *)
(***************************************************************************)
C9_SkippedEntries ==
    AfterSync =>
        /\ \A j \in 1..Len(matches) :
            LET song == songs[matches[j].song]
                i == matches[j].index
            IN  /\ i \in ValidIndices
                /\ \A l \in 1..Len(matches) : l < j => matches[l].index < i
                /\ IF matches[j].new
                   THEN song.actions[1].video_id = KeyAt(i) /\ song.actions[5].index = i
                   ELSE /\ song.video_id = Some(KeyAt(i))
                        /\ \/ song.index = Some(i) /\ song.actions = << >>
                           \/ song.actions[1] = UpdateIndexMetadata(i)
        /\ \A k \in 1..Len(songs) : \A a \in 1..Len(songs[k].actions) :
            songs[k].actions[a].type = "UpdateIndexMetadata" =>
                songs[k].actions[a].index \in ValidIndices
        /\ Popped + Created <= Cardinality(ValidIndices)
        /\ pc = "synced" =>
            /\ Popped + Created = Cardinality(ValidIndices)
            /\ { matches[j].index : j \in 1..Len(matches) } = ValidIndices

\* a skipped entry first, a loaded song matched at index 1 after it
C9_Witness ==
    /\ pc = "synced"
    /\ Len(remote) = 2
    /\ remote[1].kind = "none"
    /\ \E j \in 1..Len(matches) : matches[j].index = 1 /\ ~matches[j].new
    /\ Remaining(video_id_to_remaining_songs) # { }

\* the songs are as they were loaded or created: no action has touched them
Untouched ==
    \A k \in 1..Len(songs) :
        IF IsNone(songs[k].file)
        THEN [songs[k] EXCEPT !.actions = << >>] = Song(None, None, None, None, None)
        ELSE /\ Val(songs[k].file) \in DOMAIN disk
             /\ [songs[k] EXCEPT !.actions = << >>]
                    = from_file(Val(songs[k].file), disk[Val(songs[k].file)])

C10_Gate ==
    /\ (napplied > 0 \/ pc \in { "applying", "apply_error" }) =>
        rendered /\ response = Some("yes")
    /\ pc = "aborted" =>
        /\ rendered
        /\ ~IsNone(response)
        /\ response # Some("yes")
        /\ napplied = 0
        /\ Untouched

C10_AnswerStep ==
    /\ (pc = "confirming" /\ response' # Some("yes")) =>
        pc' = "aborted" /\ UNCHANGED << disk, songs, napplied >>
    /\ pc = "aborted" => UNCHANGED << disk, songs, napplied >>
    /\ napplied' > napplied => rendered /\ response = Some("yes")

(***************************************************************************)
(* C10: no action is applied before the changelist has been rendered and   *)
(* the response to the confirmation has been exactly "yes"; any other      *)
(* response ends the run with no action applied, the directory and the     *)
(* songs as they were.                                                     *)
(***************************************************************************)
C10_ConfirmationGate == [](C10_Gate) /\ [][C10_AnswerStep]_vars

\* the run ended on the response "y"
C10_Witness ==
    /\ pc = "aborted"
    /\ response = Some("y")
    /\ rendered
    /\ has_any_song_action(songs)

\* the files without a video id tag that are the file of no song: the
\* user's own files, which the directory does not track
Untracked(d, ss) ==
    { n \in DOMAIN d :
        IsNone(d[n].video_id) /\ \A k \in 1..Len(ss) : ss[k].file # Some(n) }

\* no loaded song is an untracked file
C11_Excluded ==
    pc = "loaded" => \A k \in 1..Len(songs) : ~IsNone(disk[Val(songs[k].file)].video_id)

\* a step leaves every untracked file in its place, as it was
C11_Kept ==
    \A n \in Untracked(disk, songs) : n \in DOMAIN disk' /\ disk'[n] = disk[n]

(***************************************************************************)
(* C11: a file without a video id tag is not loaded, gets no action, and   *)
(* no sync and apply deletes, renames or overwrites it.  The code does not *)
(* keep the last: a Download or a RenameFile whose target is the name of   *)
(* an untracked file replaces that file.                                   *)
(***************************************************************************)
C11_UntrackedUntouched == [](C11_Excluded) /\ [][C11_Kept]_vars

(***************************************************************************)
(* Playlist.sync called once more on the same Playlist object: the songs   *)
(* carry the actions of the first call and the queues are as it left them. *)
(***************************************************************************)
SyncAgainCommit(st) ==
    /\ raised' = SyncException(st.error)
    /\ songs' = st.songs
    /\ video_id_to_remaining_songs' = st.remaining
    /\ cached_video_titles' = st.cache
    /\ matches' = st.matches
    /\ pc' = IF st.error = "none" THEN "resynced" ELSE "sync_error"

SyncAgain ==
    /\ pc = "synced"
    /\ \E playlist \in { "ok", "fail" }, net \in NetAnswers :
        IF playlist = "fail"
        THEN /\ pc' = "sync_error"
             /\ raised' = MetadataError("no info")
             /\ UNCHANGED << songs, video_id_to_remaining_songs, cached_video_titles,
                             matches >>
        ELSE SyncAgainCommit(SyncResult(opts.delete_allowed, opts.rename_allowed, net))
    /\ UNCHANGED << disk, remote, pos, opts, run, rendered, response, napplied, nfailed,
                    future >>

NextResync ==
    \/ Load
    \/ Sync
    \/ SyncAgain

\* a Playlist is built and synced twice in a row
SpecResync == Init /\ [][NextResync]_vars

\* the second call returns and leaves the songs and their actions as the
\* first call left them
C12_SameResult == (pc = "synced" /\ pc' = "resynced") => songs' = songs

(***************************************************************************)
(* C12: a second sync on the same Playlist object, with the same remote    *)
(* list and flags and no apply in between, leaves what the first left: no  *)
(* action twice on a song and no further song to download.  The code does  *)
(* not keep this: the first call has emptied the queues, so the second     *)
(* finds no loaded song and creates a new song for every remote entry.     *)
(***************************************************************************)
C12_SyncRepeatable == [][C12_SameResult]_vars

(***************************************************************************)
(* Playlists whose entries may lack a title, so that get_video_title has   *)
(* to ask yt-dlp for the video, which may fail.                            *)
(***************************************************************************)
LookupEntryOptions == EntryOptions \cup { InfoEntry(Some(v), FALSE) : v \in Keys }

LookupRemotes == UNION { [1..n -> LookupEntryOptions] : n \in 0..MaxRemote }

LookupDisks == { d \in Disks : Cardinality(DOMAIN d) <= 1 }

InitLookup ==
    /\ disk \in LookupDisks
    /\ remote \in LookupRemotes
    /\ cached_video_titles = << >>
    /\ songs = << >>
    /\ video_id_to_remaining_songs = << >>
    /\ pc = "start"
    /\ pos = << 1, 1 >>
    /\ opts \in Options
    /\ matches = << >>
    /\ run = 1
    /\ rendered = FALSE
    /\ response = None
    /\ napplied = 0
    /\ nfailed = 0
    /\ raised = NoException
    /\ future = NoFuture

NextLookup ==
    \/ Load
    \/ Sync

\* a Playlist is built and synced against a playlist with untitled entries
SpecLookup == InitLookup /\ [][NextLookup]_vars

(***************************************************************************)
(* C13: when sync raises for an entry without an id or for a title that    *)
(* cannot be found, no song has an action, no song has been created and    *)
(* no queue has lost a song.  The code does not keep this: the entries     *)
(* before the failing one have been handled in place when it raises.       *)
(***************************************************************************)
C13_NothingQueuedOnError ==
    pc = "sync_error" =>
        /\ NoChanges
        /\ Len(songs) = Cardinality(TrackedNames(disk))
        /\ video_id_to_remaining_songs = RemainingOf(songs)

\* the actions of the songs before song k
RECURSIVE ActionsBefore(_, _)
ActionsBefore(ss, k) ==
    IF k <= 1 THEN 0 ELSE ActionsBefore(ss, k - 1) + Len(ss[k - 1].actions)

\* an action has raised: the run is over, and the calls of apply made are
\* those of the actions up to the one that raised
C14_Stopped ==
    /\ nfailed <= 1
    /\ (nfailed = 1) = (pc = "apply_error")
    /\ (raised # NoException) = (pc \in { "apply_error", "sync_error" })
    /\ pc = "apply_error" => napplied = ActionsBefore(songs, pos[1]) + pos[2]

\* the raising step undoes nothing in the directory or on the other songs,
\* and no step follows it
C14_NoRollback ==
    /\ pc' = "apply_error" =>
        /\ disk' = disk
        /\ \A k \in 1..Len(songs) : k # pos[1] => songs'[k] = songs[k]
    /\ pc = "apply_error" => UNCHANGED << disk, songs, napplied, pos >>

(***************************************************************************)
(* C14: when an action raises during Playlist.apply, no later action of    *)
(* the song and no action of a later song is applied, and what the actions *)
(* before it did to the directory and the songs stays.                     *)
(***************************************************************************)
C14_ApplyStopsAtFailure == [](C14_Stopped) /\ [][C14_NoRollback]_vars

\* the second action applied has raised and an action after it is left
C14_Witness ==
    /\ pc = "apply_error"
    /\ napplied >= 2
    /\ NextPos(songs, pos[1], pos[2])[1] <= Len(songs)

\* before the apply phase no action has been applied
C15_OnlyInApply ==
    pc \in { "start", "loaded", "synced", "sync_error", "confirming", "aborted" } =>
        napplied = 0 /\ Untouched

\* the apply has run to its end: every action was applied once and none is
\* pending any more
C15_Drained ==
    (pc = "done" /\ response = Some("yes")) =>
        /\ napplied = ActionsBefore(songs, Len(songs) + 1)
        /\ \A k \in 1..Len(songs) : songs[k].actions = << >>

(***************************************************************************)
(* C15: every pending action is applied exactly once, in the order of the  *)
(* queue and only by apply, never by sync; when apply has returned the     *)
(* songs have no pending action left, so that applying again does nothing. *)
(* The code does not keep the last: Song.apply leaves actions as it was.   *)
(***************************************************************************)
C15_AppliedOnceAndDrained == C15_OnlyInApply /\ C15_Drained

(***************************************************************************)
(* Song.update_metadata                                                    *)
(***************************************************************************)
AppendAction(song, wanted, action) ==
    IF wanted THEN [song EXCEPT !.actions = Append(@, action)] ELSE song

\* variant: the rename is decided and named by the committed values
AppendRename_Committed(song, rename_allowed) ==
    IF /\ rename_allowed
       /\ ~IsNone(song.artist)
       /\ ~IsNone(song.title)
       /\ ~IsNone(song.index)
    THEN [song EXCEPT !.actions =
            Append(@, RenameFile(make_filename(song.artist, Val(song.title),
                                               Val(song.index))))]
    ELSE song

\* the part under "if rename_allowed"
AppendRename(song, rename_allowed) ==
    IF /\ rename_allowed
       /\ ~IsNone(get_future_artist(song))
       /\ ~IsNone(get_future_title(song))
       /\ ~IsNone(get_future_index(song))
    THEN [song EXCEPT !.actions =
            Append(@, RenameFile(make_filename(get_future_artist(song),
                                               Val(get_future_title(song)),
                                               Val(get_future_index(song)))))]
    ELSE song

\* the four "if new_... is not None"; an argument None is << >>, the
\* value of one that is given is Val
AppendUpdates(song, new_title, new_artist, new_video_id, new_index) ==
    AppendAction(
        AppendAction(
            AppendAction(
                AppendAction(song, ~IsNone(new_title),
                             UpdateTitleMetadata(IF IsNone(new_title) THEN << >>
                                                 ELSE Val(new_title))),
                ~IsNone(new_artist), UpdateArtistMetadata(new_artist)),
            ~IsNone(new_video_id),
            UpdateVideoIdMetadata(IF IsNone(new_video_id) THEN "" ELSE Val(new_video_id))),
        ~IsNone(new_index),
        UpdateIndexMetadata(IF IsNone(new_index) THEN 0 ELSE Val(new_index)))

update_metadata(song, new_title, new_artist, new_video_id, new_index, rename_allowed) ==
    AppendRename(AppendUpdates(song, new_title, new_artist, new_video_id, new_index),
                 rename_allowed)

(***************************************************************************)
(* A Song on its own, as the update-metadata command holds it after        *)
(* Song.from_file, or as sync created it: update_metadata queues actions   *)
(* on it and the get_future_ methods are asked.                            *)
(***************************************************************************)
ArtistB == << "B" >>

TitleT == << "T" >>

NewTitles == { None, Some(TitleT) }

NewArtists == { None, Some(ArtistB) }

NewVideoIds == { None, Some("b") }

NewIndices == { None, Some(0), Some(1) }

InitFuture ==
    /\ \/ \E f \in FileOptions :
            /\ disk = DiskOf({ f })
            /\ songs = << from_file(f.name, f.tags) >>
       \/ \E v \in Keys :
            /\ disk = << >>
            /\ songs = << NewSong(v, parse_video_title(VideoTitleOf(v)), 0) >>
    /\ remote = << >>
    /\ cached_video_titles = << >>
    /\ video_id_to_remaining_songs = << >>
    /\ pc = "song"
    /\ pos = << 1, 1 >>
    /\ opts = [delete_allowed |-> TRUE, rename_allowed |-> TRUE]
    /\ matches = << >>
    /\ run = 1
    /\ rendered = FALSE
    /\ response = None
    /\ napplied = 0
    /\ nfailed = 0
    /\ raised = NoException
    /\ future = NoFuture

\* how many of the arguments are not None
GivenCount(args) == Cardinality({ k \in 1..Len(args) : ~IsNone(args[k]) })

\* song.update_metadata(new_title, new_artist, new_video_id, new_index,
\* rename_allowed), as long as the queue cannot grow beyond MaxQueue
UpdateMetadata ==
    /\ pc = "song"
    /\ \E new_title \in NewTitles, new_artist \in NewArtists,
          new_video_id \in NewVideoIds, new_index \in NewIndices,
          rename_allowed \in BOOLEAN :
        /\ Len(songs[1].actions)
                + GivenCount(<< new_title, new_artist, new_video_id, new_index >>)
                + (IF rename_allowed THEN 1 ELSE 0) <= MaxQueue
        /\ songs' = << update_metadata(songs[1], new_title, new_artist, new_video_id,
                                       new_index, rename_allowed) >>
    /\ UNCHANGED << disk, remote, cached_video_titles, video_id_to_remaining_songs, pc,
                    pos, opts, matches, run, rendered, response, napplied, nfailed,
                    raised, future >>

\* variant: the scan writes the value it found back to the song
GetFuture_WriteBack ==
    /\ pc = "song"
    /\ \E attribute \in { "video_id", "index", "artist", "title" } :
        /\ future' = [attribute |-> attribute,
                      value |-> FutureScan(songs[1][attribute], songs[1].actions, 1,
                                           IF attribute = "video_id"
                                           THEN "UpdateVideoIdMetadata"
                                           ELSE IF attribute = "index"
                                           THEN "UpdateIndexMetadata"
                                           ELSE IF attribute = "artist"
                                           THEN "UpdateArtistMetadata"
                                           ELSE "UpdateTitleMetadata", attribute)]
        /\ songs' = << [songs[1] EXCEPT ![attribute] = future'.value] >>
    /\ UNCHANGED << disk, remote, cached_video_titles, video_id_to_remaining_songs,
                    pc, pos, opts, matches, run, rendered, response, napplied, nfailed,
                    raised >>

\* one of song.get_future_video_id(), get_future_index(), get_future_artist()
\* and get_future_title() is called
GetFuture ==
    /\ pc = "song"
    /\ \/ future' = [attribute |-> "video_id", value |-> get_future_video_id(songs[1])]
       \/ future' = [attribute |-> "index", value |-> get_future_index(songs[1])]
       \/ future' = [attribute |-> "artist", value |-> get_future_artist(songs[1])]
       \/ future' = [attribute |-> "title", value |-> get_future_title(songs[1])]
    /\ UNCHANGED << disk, remote, cached_video_titles, songs, video_id_to_remaining_songs,
                    pc, pos, opts, matches, run, rendered, response, napplied, nfailed,
                    raised >>

NextFuture ==
    \/ UpdateMetadata
    \/ GetFuture

SpecFuture == InitFuture /\ [][NextFuture]_vars

\* the apply method of the action assigns the attribute of the song
Writes(action, attribute) ==
    \/ action.type = "UpdateVideoIdMetadata" /\ attribute = "video_id"
    \/ action.type = "Download" /\ attribute = "video_id"
    \/ action.type = "UpdateIndexMetadata" /\ attribute = "index"
    \/ action.type = "UpdateArtistMetadata" /\ attribute = "artist"
    \/ action.type = "UpdateTitleMetadata" /\ attribute = "title"

\* positions of the pending actions of the song that write the attribute
Writers(song, attribute) ==
    { k \in 1..Len(song.actions) : Writes(song.actions[k], attribute) }

Last(S) == CHOOSE k \in S : \A j \in S : j <= k

\* the value the attribute holds once the pending actions have run
LastWrite(song, attribute) ==
    IF Writers(song, attribute) = { } THEN song[attribute]
    ELSE Payload(song.actions[Last(Writers(song, attribute))], attribute)

\* a call of get_future_<attribute> has just returned
Returned == future' # future

\* C16: get_future_<attribute> returns the payload of the last pending action
\* that writes the attribute, and the committed value when no pending action
\* writes it; actions that write other attributes do not matter.
C16_Returned == Returned => future'.value = LastWrite(songs[1], future'.attribute)

C16_LastWriteWins == [][C16_Returned]_vars

\* two pending actions write the returned attribute with different payloads
\* and the call returned the later one
C16_Witness ==
    /\ future.attribute # "none"
    /\ \E j, k \in Writers(songs[1], future.attribute) :
        /\ j < k
        /\ Payload(songs[1].actions[j], future.attribute)
                # Payload(songs[1].actions[k], future.attribute)
    /\ future.value = LastWrite(songs[1], future.attribute)
    /\ future.value # songs[1][future.attribute]

\* C17: a call of get_future_video_id, get_future_index, get_future_artist or
\* get_future_title leaves the song's committed fields, its file and its
\* pending actions as they were, and the directory with them.
C17_Unchanged == Returned => songs' = songs /\ disk' = disk

C17_FutureIsPure == [][C17_Unchanged]_vars

\* a call returned a pending value that differs from the committed one, and
\* the song still has its committed value and its pending actions
C17_Witness ==
    /\ future.attribute # "none"
    /\ Writers(songs[1], future.attribute) # { }
    /\ ~IsNone(songs[1][future.attribute])
    /\ ~IsNone(songs[1].file)
    /\ future.value # songs[1][future.attribute]

(***************************************************************************)
(* One action applied to one song: the song holds a file of the directory  *)
(* or has no file yet, and the file may be removed by someone else before  *)
(* the action runs.                                                        *)
(***************************************************************************)

\* the actions a queue can hold, with payloads that differ from the tags
\* of the files
ActionOptions ==
    { UpdateVideoIdMetadata("b"), UpdateIndexMetadata(1),
      UpdateArtistMetadata(None), UpdateArtistMetadata(Some(ArtistB)),
      UpdateTitleMetadata(TitleT), Delete, Normalize,
      Download("b", make_filename(Some(ArtistA), TitleS, 0)),
      RenameFile(make_filename(Some(ArtistB), TitleT, 1)) }

\* the song the action is applied to: loaded from a file of the directory,
\* or created by sync for a video not downloaded yet
InitAction ==
    /\ \E others \in SUBSET UntrackedFiles, action \in ActionOptions :
        \/ \E f \in SyncedFiles \cup TrackedUserFiles :
            /\ f.name \notin { g.name : g \in others }
            /\ disk = DiskOf({ f } \cup others)
            /\ songs = << [from_file(f.name, f.tags) EXCEPT !.actions = << action >>] >>
        \/ /\ disk = DiskOf(others)
           /\ songs = << [Song(None, None, None, None, None) EXCEPT
                            !.actions = << action >>] >>
    /\ remote = << >>
    /\ cached_video_titles = << >>
    /\ video_id_to_remaining_songs = << >>
    /\ pc = "applying"
    /\ pos = << 1, 1 >>
    /\ opts = [delete_allowed |-> TRUE, rename_allowed |-> TRUE]
    /\ matches = << >>
    /\ run = 1
    /\ rendered = TRUE
    /\ response = Some("yes")
    /\ napplied = 0
    /\ nfailed = 0
    /\ raised = NoException
    /\ future = NoFuture

\* someone else removes the song's file before the action is applied
FileRemoved ==
    /\ pc = "applying"
    /\ ~IsNone(songs[1].file)
    /\ Val(songs[1].file) \in DOMAIN disk
    /\ disk' = Without(disk, { Val(songs[1].file) })
    /\ UNCHANGED << remote, cached_video_titles, songs, video_id_to_remaining_songs, pc,
                    pos, opts, matches, run, rendered, response, napplied, nfailed,
                    raised, future >>

NextAction ==
    \/ FileRemoved
    \/ ApplyStep

SpecAction == InitAction /\ [][NextAction]_vars

\* the action whose apply is called next, and the song it is called on
CurrentSong == songs[pos[1]]

CurrentAction == CurrentSong.actions[pos[2]]

\* apply is called on an action of one of the types
Applies(types) == napplied' = napplied + 1 /\ CurrentAction.type \in types

UpdateTypes ==
    { "UpdateVideoIdMetadata", "UpdateIndexMetadata", "UpdateArtistMetadata",
      "UpdateTitleMetadata" }

\* the attribute of the song and tag of the file an Update action writes
AttributeOf(action) ==
    IF action.type = "UpdateVideoIdMetadata" THEN "video_id"
    ELSE IF action.type = "UpdateIndexMetadata" THEN "index"
    ELSE IF action.type = "UpdateArtistMetadata" THEN "artist"
    ELSE "title"

\* the text an Update action stores in the tag
TagValue(action) ==
    IF action.type = "UpdateIndexMetadata" THEN Some(IntToStr(action.index))
    ELSE Payload(action, AttributeOf(action))

\* the song after the action has written its one field
C18_FieldWritten(song, action) ==
    songs'[pos[1]] = [song EXCEPT ![AttributeOf(action)] = Payload(action, AttributeOf(action))]

\* the directory after the action has written its one tag of the one file
C18_TagPersisted(file, action) ==
    disk' = [disk EXCEPT ![file][AttributeOf(action)] = TagValue(action)]

C18_Update(song, action) ==
    /\ C18_FieldWritten(song, action)
    /\ IsNone(song.file) => raised' = << "ActionError", action.type >> /\ disk' = disk
    /\ ~IsNone(song.file) =>
        /\ raised' \in { NoException, << "IOError" >> }
        /\ raised' = NoException => C18_TagPersisted(Val(song.file), action)
        /\ raised' # NoException => disk' = disk

\* C18: applying UpdateVideoIdMetadata, UpdateIndexMetadata,
\* UpdateArtistMetadata or UpdateTitleMetadata to a song whose file is None
\* raises ActionError naming the action's class and writes no file; with a
\* file it sets the one field of the song and, unless the tag library
\* raises, stores that one tag in that one file.
C18_UpdateMetadataApply == [][Applies(UpdateTypes) => C18_Update(CurrentSong, CurrentAction)]_vars

\* an Update action was applied to a song without a file and raised ActionError
C18_Witness ==
    /\ pc = "apply_error"
    /\ CurrentAction.type \in UpdateTypes
    /\ IsNone(CurrentSong.file)
    /\ raised = << "ActionError", CurrentAction.type >>

\* the song keeps the file and video id it had before the call
C19_NotSet(song) ==
    /\ songs'[pos[1]].file = song.file
    /\ songs'[pos[1]].video_id = song.video_id

\* the song has the file and video id of the Download
C19_Set(action) ==
    /\ songs'[pos[1]].file = Some(action.output_file)
    /\ songs'[pos[1]].video_id = Some(action.video_id)

C19_Download(song, action) ==
    /\ raised' = NoException => C19_Set(action) /\ action.output_file \in DOMAIN disk'
    /\ raised' # NoException => C19_NotSet(song) /\ pc' = "apply_error"

\* C19: Download sets the song's file and video id when yt-dlp succeeds;
\* when the download fails the exception propagates and the song's file and
\* video id are not set.
C19_DownloadSetsOnSuccess == [][Applies({ "Download" }) => C19_Download(CurrentSong, CurrentAction)]_vars

\* the song's file is not in the directory
Missing(song) == ~IsNone(song.file) /\ Val(song.file) \notin DOMAIN disk

\* the call raised the exception and changed neither directory nor song
FailsWith(exception) == raised' = exception /\ disk' = disk /\ songs' = songs

C20_SameKind(song, action) ==
    IsNone(song.file) \/ Missing(song) => FailsWith(<< "ActionError", action.type >>)

C20_TwoKinds(song, action) ==
    /\ IsNone(song.file) => FailsWith(<< "ActionError", action.type >>)
    /\ Missing(song) => FailsWith(<< "FileNotFoundError" >>)

Renames(song) ==
    { song.actions[a] : a \in { x \in 1..Len(song.actions) : song.actions[x].type = "RenameFile" } }

\* the name the song's committed artist and title give at index i
CommittedName(song, i) == make_filename(song.artist, Val(song.title), i)

RenamedIf(known(_)) ==
    AfterSync =>
        \A j \in Moved :
            /\ (Renames(songs[matches[j].song]) # { })
                    = (opts.rename_allowed /\ known(songs[matches[j].song]))
            /\ \A r \in Renames(songs[matches[j].song]) :
                    r.new_name = CommittedName(songs[matches[j].song], matches[j].index)

ArtistKnown(song) == ~IsNone(song.artist)

TitleKnown(song) == ~IsNone(song.title)

(***************************************************************************)
(* C21, as stated: a loaded song matched at an index i other than its own  *)
(* gets a RenameFile if and only if renaming is allowed and its committed  *)
(* artist is known, named after its committed artist and title and i.  It  *)
(* fails for a song with a title and no artist: sync asks for the title.   *)
(***************************************************************************)
C21_RenameIfArtistKnown == RenamedIf(ArtistKnown)

(***************************************************************************)
(* C21, amended: a loaded song matched at an index i other than its own    *)
(* gets a RenameFile if and only if renaming is allowed and its committed  *)
(* title is known; the new name is made of the committed artist, if any,   *)
(* the committed title and i.                                              *)
(***************************************************************************)
C21_RenameIfTitleKnown == RenamedIf(TitleKnown)

\* a moved song with a title and no artist is renamed to "<i> <title>.mp3"
C21_Witness ==
    /\ pc = "synced"
    /\ \E j \in Moved :
        /\ IsNone(songs[matches[j].song].artist)
        /\ ~IsNone(songs[matches[j].song].title)
        /\ Renames(songs[matches[j].song])
                = { RenameFile(IntToStr(matches[j].index) \o << " " >>
                               \o Val(songs[matches[j].song].title) \o Mp3Suffix) }

\* the array indices of the remote entries that are not skipped and carry no id
NoIdIndices ==
    { i \in 0..(Len(remote) - 1) : remote[i + 1].kind = "info" /\ IsNone(remote[i + 1].id) }

\* sync has been called
SyncCalled == pc \notin { "start", "loaded" }

(***************************************************************************)
(* C22: when a remote entry that is not skipped carries no id, sync raises *)
(* YoutubeVideoMetadataError, and from then on no action of any song is    *)
(* applied: the songs and their files stay as they were.                   *)
(***************************************************************************)
C22_NoIdFailsSync ==
    (SyncCalled /\ NoIdIndices # { }) =>
        /\ pc = "sync_error"
        /\ raised \in { MetadataError("no id"), MetadataError("no info") }
        /\ napplied = 0
        /\ Untouched

\* sync raised for an entry without id after it had queued actions for the
\* entries before it, and none of them is applied
C22_Witness ==
    /\ pc = "sync_error"
    /\ raised = MetadataError("no id")
    /\ \E k \in 1..Len(songs) : songs[k].actions # << >>
    /\ napplied = 0

(***************************************************************************)
(* The titles of the videos: sync parses the title of every video it has   *)
(* no song for.  A playlist of one video is synced into an empty           *)
(* directory, for each title made of up to MaxPieces pieces.               *)
(***************************************************************************)
MaxPieces == 3

TitlePieces ==
    { << "A" >>, << " ", "-", " " >>, << "S", " ", "-", " ", "T" >>, << " " >>,
      << "[", "x", "]" >>, << "(", "b", ")" >>,
      << "(", "A", "u", "d", "i", "o", ")" >>,
      << "(", "h", "q", " ", "v", "i", "d", "e", "o", ")" >> }

RECURSIVE Concat(_, _)
Concat(pieces, k) == IF k > Len(pieces) THEN << >> ELSE pieces[k] \o Concat(pieces, k + 1)

VideoTitles == { Concat(f, 1) : f \in UNION { [1..n -> TitlePieces] : n \in 1..MaxPieces } }

InitParse ==
    /\ disk = << >>
    /\ \E t \in VideoTitles : remote = << [kind |-> "info", id |-> Some("a"), title |-> Some(t)] >>
    /\ cached_video_titles = << >>
    /\ songs = << >>
    /\ video_id_to_remaining_songs = << >>
    /\ pc = "start"
    /\ pos = << 1, 1 >>
    /\ opts = [delete_allowed |-> TRUE, rename_allowed |-> TRUE]
    /\ matches = << >>
    /\ run = 1
    /\ rendered = FALSE
    /\ response = None
    /\ napplied = 0
    /\ nfailed = 0
    /\ raised = NoException
    /\ future = NoFuture

NextParse ==
    \/ Load
    \/ Sync

SpecParse == InitParse /\ [][NextParse]_vars

\* the title of the one video, and what sync made of it
video_title == Val(remote[1].title)

\* the parentheses matches that contain a marker word
MarkedParens(s) ==
    { span \in { FindSpans(s, "(", ")", 0)[k] : k \in 1..Len(FindSpans(s, "(", ")", 0)) } :
        \E w \in 1..Len(MarkerWords) :
            Contains(Casefold(Slice(s, span[1], span[2])), MarkerWords[w]) }

SquareBrackets(s) ==
    { FindSpans(s, "[", "]", 0)[k] : k \in 1..Len(FindSpans(s, "[", "]", 0)) }

\* the 0-based offsets of s inside one of the spans
Inside(s, spans) ==
    { p \in 0..(Len(s) - 1) : \E span \in spans : span[1] <= p /\ p < span[2] }

\* s without the characters at the offsets
RECURSIVE Deleted(_, _, _)
Deleted(s, offsets, p) ==
    IF p >= Len(s) THEN << >>
    ELSE (IF p \in offsets THEN << >> ELSE << s[p + 1] >>) \o Deleted(s, offsets, p + 1)

\* the title with exactly the bracketed spans and the marked parenthesized
\* spans deleted
SpansDeleted(s) == Deleted(s, Inside(s, SquareBrackets(s) \cup MarkedParens(s)), 0)

(***************************************************************************)
(* C23: the cleaned title is the video title with every [...] span and     *)
(* every (...) span that contains a marker word deleted, and nothing else, *)
(* whatever the order of the spans.  The code does not keep this: a        *)
(* removed (...) span that starts before a [...] span leaves both in.      *)
(***************************************************************************)
C23_CleanTitle ==
    pc = "synced" => CleanVideoTitle(video_title) = SpansDeleted(video_title)

\* the artist and title sync queued for the song of the one video
QueuedArtist ==
    (CHOOSE a \in { songs[1].actions[k] : k \in 1..Len(songs[1].actions) } :
        a.type = "UpdateArtistMetadata").artist

QueuedTitle ==
    (CHOOSE a \in { songs[1].actions[k] : k \in 1..Len(songs[1].actions) } :
        a.type = "UpdateTitleMetadata").title

Spaces(s) == \A k \in 1..Len(s) : s[k] = " "

\* t is s without its leading and trailing spaces
Trimmed(s, t) ==
    /\ t = << >> \/ (t[1] # " " /\ t[Len(t)] # " ")
    /\ \E a \in 0..Len(s) : \E b \in a..Len(s) :
        /\ Slice(s, a, b) = t
        /\ Spaces(Slice(s, 0, a))
        /\ Spaces(Slice(s, b, Len(s)))

\* the separator is at offset p of s and nowhere before
FirstSeparatorAt(s, p) ==
    /\ OccursAt(s, Separator, p)
    /\ \A q \in 0..(p - 1) : ~OccursAt(s, Separator, q)

C24_Split(clean, artist, title) ==
    IF Contains(clean, Separator)
    THEN \E p \in 0..Len(clean) :
            /\ FirstSeparatorAt(clean, p)
            /\ ~IsNone(artist)
            /\ Trimmed(Slice(clean, 0, p), Val(artist))
            /\ Trimmed(Slice(clean, p + Len(Separator), Len(clean)), title)
    ELSE IsNone(artist) /\ Trimmed(clean, title)

(***************************************************************************)
(* C24: the cleaned title is split at its first " - " only: what is before *)
(* it is the artist, all that is after it, later separators included, is   *)
(* the title; without a separator the artist is None and the cleaned title *)
(* is the title; artist and title have no surrounding whitespace.          *)
(***************************************************************************)
C24_FirstSeparatorSplits ==
    pc = "synced" => C24_Split(CleanVideoTitle(video_title), QueuedArtist, QueuedTitle)

\* a title with two separators: the second one stays in the title
C24_Witness ==
    /\ pc = "synced"
    /\ Cardinality({ p \in 0..Len(video_title) : OccursAt(video_title, Separator, p) }) = 2
    /\ QueuedArtist = Some(<< "A" >>)
    /\ QueuedTitle = << "S", " ", "-", " ", "T" >>

(***************************************************************************)
(* The sync command of ytss/__main__.py: it builds the Playlist and calls  *)
(* playlist.sync with the three flags as keyword arguments.                *)
(***************************************************************************)

\* the flags of the command: --no-delete, --no-rename, --no-normalize
CommandOptions ==
    [delete_allowed : BOOLEAN, rename_allowed : BOOLEAN, normalize_allowed : BOOLEAN]

\* the parameters of Playlist.sync, and the keywords the command passes
SyncParameters == { "playlist_id", "delete_allowed", "rename_allowed" }

SyncKeywords == { "delete_allowed", "rename_allowed", "normalize_allowed" }

InitCommand ==
    /\ disk \in LookupDisks
    /\ remote \in Remotes
    /\ cached_video_titles = << >>
    /\ songs = << >>
    /\ video_id_to_remaining_songs = << >>
    /\ pc = "start"
    /\ pos = << 1, 1 >>
    /\ opts \in CommandOptions
    /\ matches = << >>
    /\ run = 1
    /\ rendered = FALSE
    /\ response = None
    /\ napplied = 0
    /\ nfailed = 0
    /\ raised = NoException
    /\ future = NoFuture

\* the call playlist.sync(playlist_id, delete_allowed=..., rename_allowed=...,
\* normalize_allowed=...): a keyword that is no parameter raises TypeError
\* before the body of sync is entered
SyncCommand ==
    IF SyncKeywords \subseteq SyncParameters
    THEN Sync
    ELSE /\ pc = "loaded"
         /\ pc' = "sync_error"
         /\ raised' = Exception("TypeError")
         /\ UNCHANGED << disk, remote, cached_video_titles, songs,
                         video_id_to_remaining_songs, pos, opts, matches, run, rendered,
                         response, napplied, nfailed, future >>

NextCommand ==
    \/ Load
    \/ SyncCommand

SpecCommand == InitCommand /\ [][NextCommand]_vars

\* the song's queue holds one Normalize, right after its Download
NormalizedOnce(song) ==
    /\ CountActions(song, "Normalize") = 1
    /\ \E a \in 1..(Len(song.actions) - 1) :
        song.actions[a].type = "Download" /\ song.actions[a + 1].type = "Normalize"

(***************************************************************************)
(* C25: the sync command completes the reconciliation with or without      *)
(* --no-normalize; with the flag no new song's queue holds a Normalize,    *)
(* without it every new song's queue holds one Normalize right after the   *)
(* Download.  The code does not keep this: Playlist.sync has no            *)
(* normalize_allowed parameter, so the call of the command raises          *)
(* TypeError and nothing is reconciled.                                    *)
(***************************************************************************)
C25_NormalizeGating ==
    SyncCalled =>
        /\ pc # "sync_error" \/ raised[1] = "YoutubeVideoMetadataError"
        /\ pc = "synced" =>
            \A k \in NewSongs :
                IF opts.normalize_allowed THEN NormalizedOnce(songs[k])
                ELSE ~HasAction(songs[k], "Normalize")

\* the matches in which sync created a song
CreatedSongs == { matches[j] : j \in { x \in 1..Len(matches) : matches[x].new } }

\* the artist and title queued for a song sync created
Queued(song, type) ==
    CHOOSE a \in { song.actions[k] : k \in 1..Len(song.actions) } : a.type = type

QueuedParse(song) ==
    << Queued(song, "UpdateArtistMetadata").artist, Queued(song, "UpdateTitleMetadata").title >>

\* the index of the entry whose title lookup raised: the first entry with
\* an id that sync has not got past
Handled == { matches[j].index : j \in 1..Len(matches) }

FailedLookups ==
    { i \in ValidIndices \ Handled : \A j \in ValidIndices \ Handled : i <= j }

(***************************************************************************)
(* C26: the cache of titles is keyed by video id.  Each cached title is    *)
(* the title of its own id, each new song gets the title of its own id,    *)
(* and once a title was returned for an id no later lookup of that id asks *)
(* yt-dlp again: a lookup never fails for an id looked up before.          *)
(***************************************************************************)
C26_TitleCache ==
    AfterSync =>
        /\ \A v \in DOMAIN cached_video_titles : cached_video_titles[v] = VideoTitleOf(v)
        /\ \A m \in CreatedSongs :
            /\ KeyAt(m.index) \in DOMAIN cached_video_titles
            /\ QueuedParse(songs[m.song]) = parse_video_title(VideoTitleOf(KeyAt(m.index)))
        /\ raised = MetadataError("no title") =>
            \A i \in FailedLookups : \A m \in CreatedSongs : KeyAt(m.index) # KeyAt(i)

\* two songs were created for one id; the entry of the second carries no
\* title, the first lookup had cached it
C26_Witness ==
    /\ pc = "synced"
    /\ \E m, n \in CreatedSongs :
        /\ m.index < n.index
        /\ KeyAt(m.index) = KeyAt(n.index)
        /\ IsNone(remote[n.index + 1].title)
        /\ QueuedParse(songs[n.song]) = parse_video_title(cached_video_titles[KeyAt(n.index)])
    /\ Cardinality(DOMAIN cached_video_titles) = 1

(***************************************************************************)
(* The order of a new song's queue: the queue is applied as sync built it, *)
(* or with one of its actions taken out and applied first.                 *)
(***************************************************************************)

\* the sequence with its k-th element moved to the front
MovedToFront(seq, k) ==
    << seq[k] >> \o SubSeq(seq, 1, k - 1) \o SubSeq(seq, k + 1, Len(seq))

InitOrder ==
    /\ disk \in LookupDisks
    /\ \E v \in Keys, first \in 1..6 :
        songs = << [NewSong(v, parse_video_title(VideoTitleOf(v)), 0) EXCEPT
                        !.actions = MovedToFront(@, first)] >>
    /\ remote = << >>
    /\ cached_video_titles = << >>
    /\ video_id_to_remaining_songs = << >>
    /\ pc = "applying"
    /\ pos = << 1, 1 >>
    /\ opts = [delete_allowed |-> TRUE, rename_allowed |-> TRUE]
    /\ matches = << >>
    /\ run = 1
    /\ rendered = TRUE
    /\ response = Some("yes")
    /\ napplied = 0
    /\ nfailed = 0
    /\ raised = NoException
    /\ future = NoFuture

NextOrder == ApplyStep

SpecOrder == InitOrder /\ [][NextOrder]_vars

\* the queue is in the order sync gave it
ProgramOrder(song) == song.actions[1].type = "Download"

\* an action other than Download is applied before any Download was
BeforeDownload(song, action) == IsNone(song.file) /\ action.type # "Download"

C27_Order(song, action) ==
    /\ ProgramOrder(song) =>
        /\ raised' \in { NoException, << "DownloadError" >>, << "IOError" >> }
        /\ ~BeforeDownload(song, action)
    /\ BeforeDownload(song, action) =>
        /\ raised' = << "ActionError", action.type >>
        /\ disk' = disk

(***************************************************************************)
(* C27: applied in the order sync queued them, the actions of a new song   *)
(* never raise ActionError, whatever yt-dlp and the tag library do: the    *)
(* Download has set the song's file before Normalize and the metadata      *)
(* writes run.  Each of those actions applied before the Download raises   *)
(* ActionError.                                                            *)
(***************************************************************************)
C27_DownloadFirst == [][napplied' = napplied + 1 => C27_Order(CurrentSong, CurrentAction)]_vars

\* the six actions of a new song were applied in their order and none raised
C27_Witness ==
    /\ pc = "done"
    /\ ProgramOrder(songs[1])
    /\ napplied = 6
    /\ raised = NoException
    /\ ~IsNone(songs[1].file)
    /\ Val(songs[1].file) \in DOMAIN disk

\* the file is in the directory after the step, with the audio it had, and
\* the directory holds the same names and the other files as they were
StillPresent(file) ==
    /\ DOMAIN disk' = DOMAIN disk
    /\ disk'[file].audio = disk[file].audio
    /\ \A n \in DOMAIN disk \ { file } : disk'[n] = disk[n]

C28_Normalize(song) ==
    /\ songs' = songs
    /\ raised' = NoException => ~IsNone(song.file) /\ StillPresent(Val(song.file))
    /\ raised' # NoException => disk' = disk

LocalsOf(v) == { k \in LocalSongs : songs[k].video_id = Some(v) }

RemotesOf(v) == { i \in ValidIndices : KeyAt(i) = v }

\* the matches of loaded songs of the video id
MatchesOf(v) ==
    { j \in 1..Len(matches) : ~matches[j].new /\ matches[j].song \in LocalsOf(v) }

\* the songs created with a Download of the video id
DownloadsOf(v) ==
    { k \in NewSongs : \E a \in 1..Len(songs[k].actions) :
        songs[k].actions[a].type = "Download" /\ songs[k].actions[a].video_id = v }

DeletesOf(v) == { k \in LocalsOf(v) : HasAction(songs[k], "Delete") }

Min(a, b) == IF a <= b THEN a ELSE b

C29_Accounting(v, L, R) ==
    /\ Cardinality(MatchesOf(v)) = Min(L, R)
    /\ { matches[j].song : j \in MatchesOf(v) } = { k \in LocalsOf(v) : RankLocal(k) <= R }
    /\ \A j \in MatchesOf(v) : matches[j].index \in RemotesOf(v)
    /\ Cardinality(DownloadsOf(v)) = (IF R > L THEN R - L ELSE 0)
    /\ DeletesOf(v) = (IF opts.delete_allowed
                       THEN { k \in LocalsOf(v) : RankLocal(k) > R } ELSE { })

(***************************************************************************)
(* C29: after one sync of a freshly loaded directory, for every video id   *)
(* with L loaded songs and R remote entries that are not skipped: the      *)
(* first min(L, R) loaded songs, in load order, are matched; max(0, R - L) *)
(* songs with a Download of the id are created; the last max(0, L - R)     *)
(* loaded songs get a Delete when deleting is allowed and none get one     *)
(* when it is not.                                                         *)
(***************************************************************************)
C29_PerKeyAccounting ==
    (pc = "synced" /\ run = 1) =>
        \A v \in Keys :
            C29_Accounting(v, Cardinality(LocalsOf(v)), Cardinality(RemotesOf(v)))

\* one video id has two loaded songs and one remote entry, the second song
\* gets the Delete; another id has a remote entry and no song, and one
\* song is created for it
C29_Witness ==
    /\ pc = "synced"
    /\ opts.delete_allowed
    /\ \E v, w \in Keys :
        /\ Cardinality(LocalsOf(v)) = 2
        /\ Cardinality(RemotesOf(v)) = 1
        /\ \E k \in DeletesOf(v) : RankLocal(k) = 2
        /\ LocalsOf(w) = { }
        /\ Cardinality(DownloadsOf(w)) = 1

\* the queues sync can leave on a loaded song, as sequences of action types
LocalQueues ==
    { << >>, << "UpdateIndexMetadata" >>, << "UpdateIndexMetadata", "RenameFile" >>,
      << "Delete" >> }

\* the indices sync assigns to a song
AssignedIndices(song) ==
    { song.actions[a].index :
        a \in { x \in 1..Len(song.actions) : song.actions[x].type = "UpdateIndexMetadata" } }

(***************************************************************************)
(* C30: after one sync of a freshly loaded directory the actions of every  *)
(* loaded song are none, one UpdateIndexMetadata, an UpdateIndexMetadata   *)
(* and a RenameFile, or one Delete: never a Delete together with an index  *)
(* or rename action, never a Download.  No song is matched at two remote   *)
(* indices and no two songs are assigned the same index.                   *)
(***************************************************************************)
C30_LocalQueueShapes ==
    (AfterSync /\ run = 1) =>
        /\ \A k \in LocalSongs : ActionTypes(songs[k]) \in LocalQueues
        /\ \A j, l \in 1..Len(matches) : matches[j].song = matches[l].song => j = l
        /\ \A k, l \in 1..Len(songs) :
            k # l => AssignedIndices(songs[k]) \cap AssignedIndices(songs[l]) = { }

\* one loaded song is moved and renamed, another is deleted, and a song is
\* created at another index
C30_Witness ==
    /\ pc = "synced"
    /\ \E k, l \in LocalSongs :
        /\ ActionTypes(songs[k]) = << "UpdateIndexMetadata", "RenameFile" >>
        /\ ActionTypes(songs[l]) = << "Delete" >>
    /\ \E n \in NewSongs : \E k \in LocalSongs :
        /\ AssignedIndices(songs[n]) # { }
        /\ AssignedIndices(songs[k]) # { }

(***************************************************************************)
(* The update-metadata command: Song.from_file on a file of a directory,   *)
(* one call of Song.update_metadata with the options of the command, then  *)
(* Actionable.confirm_and_apply on the song.                               *)
(***************************************************************************)
\* the options of the command: --title, --artist, --video-id and --index,
\* each given or not, and rename_allowed, which is not --no-rename
UpdateOptions ==
    [new_title : NewTitles, new_artist : NewArtists, new_video_id : NewVideoIds,
     new_index : NewIndices, rename_allowed : BOOLEAN]

InitUpdate ==
    /\ \E d \in Disks, file \in FileOptions :
        /\ file.name \in DOMAIN d
        /\ d[file.name] = file.tags
        /\ disk = d
        /\ songs = << from_file(file.name, file.tags) >>
    /\ remote = << >>
    /\ cached_video_titles = << >>
    /\ video_id_to_remaining_songs = << >>
    /\ pc = "song"
    /\ pos = << 1, 1 >>
    /\ opts \in UpdateOptions
    /\ matches = << >>
    /\ run = 1
    /\ rendered = FALSE
    /\ response = None
    /\ napplied = 0
    /\ nfailed = 0
    /\ raised = NoException
    /\ future = NoFuture

\* song.update_metadata(new_title, new_artist, new_video_id, new_index,
\* rename_allowed=not no_rename), after which confirm_and_apply is called
UpdateMetadataCommand ==
    /\ pc = "song"
    /\ songs' = << update_metadata(songs[1], opts.new_title, opts.new_artist,
                                   opts.new_video_id, opts.new_index,
                                   opts.rename_allowed) >>
    /\ pc' = "synced"
    /\ UNCHANGED << disk, remote, cached_video_titles, video_id_to_remaining_songs,
                    pos, opts, matches, run, rendered, response, napplied, nfailed,
                    raised, future >>

NextUpdate ==
    \/ UpdateMetadataCommand
    \/ RenderChangelist
    \/ GetConfirmation
    \/ ApplyStep

SpecUpdate == InitUpdate /\ [][NextUpdate]_vars

(***************************************************************************)
(* The sync command and the update-metadata command, either of them run    *)
(* once.                                                                   *)
(***************************************************************************)
InitPreview == Init \/ InitUpdate

NextPreview ==
    \/ Next
    \/ UpdateMetadataCommand

SpecPreview == InitPreview /\ [][NextPreview]_vars

\* the committed video_id, index, artist and title of a song
Committed(song) ==
    [video_id |-> song.video_id, index |-> song.index, artist |-> song.artist,
     title |-> song.title]

\* a changelist was shown, it was confirmed and apply has returned
Applied == pc = "done" /\ future.attribute = "changelist"

(***************************************************************************)
(* C31: the preview agrees with the apply.  For every song and every queue *)
(* that sync or update_metadata built, the values the get_future_ methods  *)
(* returned for the changelist, before apply, are the song's committed     *)
(* video_id, index, artist and title once all pending actions have been    *)
(* applied without an exception, in order.                                 *)
(***************************************************************************)
C31_PreviewAgrees ==
    Applied => \A k \in 1..Len(songs) : Committed(songs[k]) = future.value[k]

\* sync queued a download and the move of a loaded song to another index,
\* and everything was applied
C31_Witness ==
    /\ Applied
    /\ \E j, k \in 1..Len(songs) :
        /\ HasAction(songs[j], "Download")
        /\ HasAction(songs[k], "RenameFile")
        /\ HasAction(songs[k], "UpdateIndexMetadata")

\* the path a RenameFile or a Download writes to
Target(action) ==
    IF action.type = "RenameFile" THEN action.new_name ELSE action.output_file

\* the songs other than k whose file is the existing file at the path
HoldersOf(path, k) ==
    { j \in 1..Len(songs) \ { k } : songs[j].file = Some(path) /\ path \in DOMAIN disk }

C32_TargetFree ==
    (pc = "applying" /\ CurrentAction.type \in { "RenameFile", "Download" })
        => HoldersOf(Target(CurrentAction), pos[1]) = { }

C32_DistinctResources ==
    pc \in { "applying", "done" } =>
        \A j, k \in KeptSongs :
            (j # k /\ ~IsNone(songs[j].file)) => songs[j].file # songs[k].file

(***************************************************************************)
(* C32: no resource is lost by a rename or a download.  At every step of   *)
(* Playlist.apply the RenameFile or Download to be applied does not target *)
(* a path that is the existing file of another song, and the songs that    *)
(* are kept refer to distinct files, also when two songs share artist and  *)
(* title and exchange positions.  The code does not keep it: the target    *)
(* names are derived from index, artist and title alone.                   *)
(***************************************************************************)
C32_NoResourceLost == C32_TargetFree /\ C32_DistinctResources

\* apply is called on an Update action and fails because the song has no file
UpdateFailsWithoutFile ==
    /\ Applies(UpdateTypes)
    /\ IsNone(CurrentSong.file)
    /\ raised' = ActionError(CurrentAction)

\* the committed fields other than the one the action writes
OtherFields(action) == { "video_id", "index", "artist", "title" } \ { AttributeOf(action) }

(***************************************************************************)
(* C33, as claimed: when an Update action fails because the song's file is *)
(* None, the song's committed video_id, index, artist and title are what   *)
(* they were before the failed apply.  The code assigns the field first.   *)
(***************************************************************************)
C33_StateUnchangedOnError ==
    [][UpdateFailsWithoutFile => Committed(songs'[pos[1]]) = Committed(CurrentSong)]_vars

(***************************************************************************)
(* C33, amended: when an Update action fails because the song's file is    *)
(* None, the field the action writes holds the action's value, the other   *)
(* three committed fields and the file are what they were before, and the  *)
(* directory is unchanged.                                                 *)
(***************************************************************************)
C33_OnlyTheWrittenField ==
    [][UpdateFailsWithoutFile =>
        /\ songs'[pos[1]][AttributeOf(CurrentAction)]
                = Payload(CurrentAction, AttributeOf(CurrentAction))
        /\ \A field \in OtherFields(CurrentAction) :
                songs'[pos[1]][field] = CurrentSong[field]
        /\ songs'[pos[1]].file = CurrentSong.file
        /\ disk' = disk]_vars

\* an Update action failed on a song without a file and left its value in
\* the song's field
C33_Witness ==
    /\ pc = "apply_error"
    /\ CurrentAction.type \in UpdateTypes
    /\ IsNone(CurrentSong.file)
    /\ raised = ActionError(CurrentAction)
    /\ ~IsNone(CurrentSong[AttributeOf(CurrentAction)])
    /\ \A field \in OtherFields(CurrentAction) : IsNone(CurrentSong[field])

\* a song that sync created: its queue starts with the Download; every
\* other song was loaded from a file
IsNew(song) == HasAction(song, "Download")

\* the index sync assigned to a new song
NewIndex(song) ==
    song.actions[CHOOSE a \in 1..Len(song.actions) :
                    song.actions[a].type = "UpdateIndexMetadata"].index

\* the new songs come after all loaded songs, in the order of the remote list
C34_NewAfterLoaded ==
    SyncCalled =>
        \A j, k \in 1..Len(songs) :
            /\ (~IsNew(songs[j]) /\ IsNew(songs[k])) => j < k
            /\ (IsNew(songs[j]) /\ IsNew(songs[k]) /\ j < k)
                    => NewIndex(songs[j]) < NewIndex(songs[k])

\* apply has been called on exactly the actions before the one it is at,
\* in the order of the songs and of their queues
C34_InOrder ==
    pc = "applying" => napplied = ActionsBefore(songs, pos[1]) + pos[2] - 1

\* when a Download is about to be applied every loaded song is behind
C34_LoadedBehind ==
    (pc = "applying" /\ CurrentAction.type = "Download") =>
        \A k \in 1..Len(songs) : ~IsNew(songs[k]) => k < pos[1]

(***************************************************************************)
(* C34: the order of apply across songs.  sync appends the new songs after *)
(* all loaded songs and in remote order, and Playlist.apply goes through   *)
(* the songs in the order of the list, so that every RenameFile, index     *)
(* write and Delete of a loaded song has been applied before the first     *)
(* Download of a new song, the loaded songs being handled in load order.   *)
(***************************************************************************)
C34_ApplyOrderAcrossSongs == C34_NewAfterLoaded /\ C34_InOrder /\ C34_LoadedBehind

\* the first Download is about to be applied after a loaded song was moved
\* and another deleted
C34_Witness ==
    /\ pc = "applying"
    /\ CurrentAction.type = "Download"
    /\ napplied = 3
    /\ \E j, k \in 1..Len(songs) :
        /\ j < pos[1] /\ HasAction(songs[j], "RenameFile")
        /\ k < pos[1] /\ HasAction(songs[k], "Delete")

(***************************************************************************)
(* Two actions applied to one song, one after the other: Song.apply on a   *)
(* queue of two, the song loaded from a file of the directory or without a *)
(* file yet.                                                               *)
(***************************************************************************)
InitQueue ==
    /\ \E others \in SUBSET UntrackedFiles, first \in ActionOptions, second \in ActionOptions :
        \/ \E f \in SyncedFiles \cup TrackedUserFiles :
            /\ f.name \notin { g.name : g \in others }
            /\ disk = DiskOf({ f } \cup others)
            /\ songs = << [from_file(f.name, f.tags) EXCEPT !.actions = << first, second >>] >>
        \/ /\ disk = DiskOf(others)
           /\ songs = << [Song(None, None, None, None, None) EXCEPT
                            !.actions = << first, second >>] >>
    /\ remote = << >>
    /\ cached_video_titles = << >>
    /\ video_id_to_remaining_songs = << >>
    /\ pc = "applying"
    /\ pos = << 1, 1 >>
    /\ opts = [delete_allowed |-> TRUE, rename_allowed |-> TRUE]
    /\ matches = << >>
    /\ run = 1
    /\ rendered = TRUE
    /\ response = Some("yes")
    /\ napplied = 0
    /\ nfailed = 0
    /\ raised = NoException
    /\ future = NoFuture

NextQueue == ApplyStep

SpecQueue == InitQueue /\ [][NextQueue]_vars

\* apply is called on the action and returns without an exception
Succeeds(types) == Applies(types) /\ raised' = NoException

\* the RenameFile moved the song's file to the new name and the song's
\* handle is the new name
C35_Renamed(song, action) ==
    /\ songs'[pos[1]] = [song EXCEPT !.file = Some(action.new_name)]
    /\ action.new_name \in DOMAIN disk'
    /\ disk'[action.new_name] = disk[Val(song.file)]
    /\ DOMAIN disk' = (DOMAIN disk \ { Val(song.file) }) \cup { action.new_name }

\* the action after a RenameFile of the same queue
AfterRename ==
    /\ pos[2] > 1
    /\ CurrentSong.actions[pos[2] - 1].type = "RenameFile"

\* what the action after the RenameFile does, it does to the file under
\* the new name
C35_OnRenamed(name, action) ==
    /\ CurrentSong.file = Some(name)
    /\ name \in DOMAIN disk
    /\ Succeeds(UpdateTypes) => C18_TagPersisted(name, action)
    /\ Succeeds({ "Delete" }) => disk' = Without(disk, { name })
    /\ Succeeds({ "Normalize" }) =>
            disk' = [disk EXCEPT ![name] = [NoTags EXCEPT !.audio = disk[name].audio]]
    /\ Succeeds({ "RenameFile" }) => disk'[action.new_name] = disk[name]

(***************************************************************************)
(* C35: after RenameFile has been applied without an exception the song's  *)
(* file is the new name, in the same directory, and the action applied to  *)
(* the song next works on the renamed file; applied to a song whose file   *)
(* is None, RenameFile raises ActionError and renames nothing.             *)
(***************************************************************************)
C35_RenameMovesHandle ==
    [][/\ Succeeds({ "RenameFile" }) => C35_Renamed(CurrentSong, CurrentAction)
       /\ (napplied' = napplied + 1 /\ AfterRename)
            => C35_OnRenamed(CurrentSong.actions[pos[2] - 1].new_name, CurrentAction)
       /\ (Applies({ "RenameFile" }) /\ IsNone(CurrentSong.file))
            => /\ raised' = ActionError(CurrentAction)
               /\ disk' = disk
               /\ songs' = songs]_vars

\* the file was renamed and the title written next is in the tags of the
\* file under the new name
C35_Witness ==
    /\ pc = "done"
    /\ napplied = 2
    /\ songs[1].actions[1].type = "RenameFile"
    /\ songs[1].actions[2].type = "UpdateTitleMetadata"
    /\ songs[1].file = Some(songs[1].actions[1].new_name)
    /\ disk[songs[1].actions[1].new_name].title = Some(songs[1].actions[2].title)

\* the Update action that each option of the command asks for, in the
\* order title, artist, video id, index; an option not given asks for none
Asked ==
    << [given |-> ~IsNone(opts.new_title), type |-> "UpdateTitleMetadata",
        field |-> "title", value |-> opts.new_title],
       [given |-> ~IsNone(opts.new_artist), type |-> "UpdateArtistMetadata",
        field |-> "artist", value |-> opts.new_artist],
       [given |-> ~IsNone(opts.new_video_id), type |-> "UpdateVideoIdMetadata",
        field |-> "video_id", value |-> opts.new_video_id],
       [given |-> ~IsNone(opts.new_index), type |-> "UpdateIndexMetadata",
        field |-> "index", value |-> opts.new_index] >>

Given == SelectSeq(Asked, LAMBDA ask : ask.given)

\* the value a field will have: the option if it is given, else the
\* committed value
Wanted(song, k) == IF Asked[k].given THEN Asked[k].value ELSE song[Asked[k].field]

\* the rename is allowed and the future artist, title and index are known
RenamePossible(song) ==
    /\ opts.rename_allowed
    /\ ~IsNone(Wanted(song, 2))
    /\ ~IsNone(Wanted(song, 1))
    /\ ~IsNone(Wanted(song, 4))

C36_Updates(actions) ==
    \A k \in 1..Len(Given) :
        /\ actions[k].type = Given[k].type
        /\ Payload(actions[k], Given[k].field) = Given[k].value

C36_Rename(song, action) ==
    /\ action.type = "RenameFile"
    /\ action.new_name = make_filename(Wanted(song, 2), Val(Wanted(song, 1)),
                                       Val(Wanted(song, 4)))

C36_Queue(song) ==
    /\ Len(song.actions) = Len(Given) + (IF RenamePossible(song) THEN 1 ELSE 0)
    /\ C36_Updates(song.actions)
    /\ RenamePossible(song) => C36_Rename(song, song.actions[Len(song.actions)])

(***************************************************************************)
(* C36: Song.update_metadata appends one Update action for each argument   *)
(* that is not None, in the order title, artist, video id, index, and      *)
(* then, if and only if rename_allowed is true and the future artist,      *)
(* title and index are all known, one RenameFile as the last action, named *)
(* from those future values, not the committed ones; with no argument      *)
(* given and no rename possible it appends nothing.                        *)
(***************************************************************************)
C36_UpdateMetadataQueue == pc = "synced" => C36_Queue(songs[1])

\* a title and an index were given for a file with another title and
\* index: two updates and a rename to the name made of the new values
C36_Witness ==
    /\ pc = "synced"
    /\ ~IsNone(songs[1].title) /\ ~IsNone(opts.new_title)
    /\ songs[1].title # opts.new_title
    /\ ~IsNone(songs[1].index) /\ ~IsNone(opts.new_index)
    /\ songs[1].index # opts.new_index
    /\ IsNone(opts.new_artist) /\ IsNone(opts.new_video_id)
    /\ Len(songs[1].actions) = 3
    /\ songs[1].actions[3].type = "RenameFile"

\* confirm_and_apply has shown the changelist of songs without any action:
\* it has ended with no confirmation asked for and no apply called
C37_NoChanges ==
    (rendered /\ ~has_any_song_action(songs)) =>
        /\ pc = "done"
        /\ future = NoFuture
        /\ IsNone(response)
        /\ napplied = 0
        /\ Untouched

\* confirm_and_apply has shown a changelist with actions: the confirmation
\* is asked for next, and apply is called only once it was given
C37_Changes ==
    (rendered /\ has_any_song_action(songs)) =>
        /\ future.attribute = "changelist"
        /\ pc \in { "confirming", "applying", "apply_error", "done", "aborted" }
        /\ pc = "confirming" <=> IsNone(response)
        /\ IsNone(response) => napplied = 0
        /\ pc \in { "applying", "apply_error", "done" } => response = Some("yes")

(***************************************************************************)
(* C37: when no song has a pending action, confirm_and_apply reports that  *)
(* there are no changes, asks for no confirmation and calls no apply; when *)
(* a song has a pending action, a confirmation is always requested before  *)
(* apply.                                                                  *)
(***************************************************************************)
C37_ConfirmOnlyChanges ==
    /\ C37_NoChanges
    /\ C37_Changes
    /\ ~rendered => (IsNone(response) /\ napplied = 0)

\* update-metadata without any option on a file that cannot be renamed:
\* nothing to apply, the command has ended without a question
C37_Witness ==
    /\ pc = "done"
    /\ rendered
    /\ Len(songs) = 1
    /\ songs[1].actions = << >>
    /\ ~IsNone(songs[1].file)
    /\ opts \in UpdateOptions
    /\ IsNone(response)

=============================================================================
